---- MODULE Spec2Model ----
(***************************************************************************)
(* Model of the clayer PBFT consensus engine                               *)
(* (crates/consensus/clayer/src/consensus.rs and consensus/message.rs).    *)
(*                                                                         *)
(* A node is a record holding the fields of PbftState, of the message log  *)
(* (PbftLog), of the seal store and of the messaging agent's queue.  Every *)
(* handler of ClayerConsensusEngine is an operator from node record to     *)
(* node record; the field res holds the Result the handler returns and the *)
(* field out the envelopes it handed to agent.broadcast_consensus.         *)
(***************************************************************************)
EXTENDS Integers, Sequences, FiniteSets, TLC

VARIABLES node, net, last, env

vars == <<node, net, last, env>>

(***************************************************************************)
(* Bounds of the model                                                     *)
(***************************************************************************)
MaxView == 2
MaxSeq == 2

(***************************************************************************)
(* Identities, message types, blocks                                       *)
(***************************************************************************)
Members == <<0, 1, 2, 3>>
Stranger == Len(Members)
NoPeer == Len(Members) + 5
PeerIds == {0, 1, 2, 3, 4}

ForcedViewChangePeriod == 100
GcWindow == 3

PrePrepare == "PrePrepare"
Prepare == "Prepare"
Commit == "Commit"
NewView == "NewView"
ViewChange == "ViewChange"
SealRequest == "SealRequest"
Seal == "Seal"
BlockNew == "BlockNew"
AnnounceBlock == "AnnounceBlock"
NewValidator == "NewValidator"

PrePreparing == "PrePreparing"
Preparing == "Preparing"
Committing == "Committing"
FinishingFalse == "Finishing(false)"
FinishingTrue == "Finishing(true)"

Finishing(catchup_again) == IF catchup_again THEN FinishingTrue ELSE FinishingFalse

IsFinishing(phase) == phase \in {FinishingFalse, FinishingTrue}

Normal == [kind |-> "Normal", v |-> 0]

ViewChanging(v) == [kind |-> "ViewChanging", v |-> v]

IsViewChanging(mode) == mode.kind = "ViewChanging"

OkRes == "Ok"
InvalidMessage == "InvalidMessage"
FaultyPrimary == "FaultyPrimary"
InternalError == "InternalError"

\* B256 values: a block id is <<block_num, signer, tag>>; B256::ZERO is ZeroId.
ZeroId == <<0, 0, 0>>
GenesisId == <<0, 0, 1>>

RangeOf(seq) == {seq[i] : i \in DOMAIN seq}

SetToSeq(S) ==
    LET RECURSIVE Build(_)
        Build(T) == IF T = {} THEN <<>>
                    ELSE LET x == CHOOSE y \in T : TRUE IN <<x>> \o Build(T \ {x})
    IN Build(S)

(***************************************************************************)
(* Wire types (eth-wire/src/types/clayer/message.rs)                       *)
(***************************************************************************)
\* ClayerConsensusMessageHeader together with its signature: signer is the
\* header's signer_id, key the owner of the key that produced the signature,
\* hash_ok whether content_hash is the hash of the message bytes, sig tells
\* apart the signatures one key has made over the same header.
NoHdr == [signer |-> NoPeer, key |-> NoPeer, hash_ok |-> FALSE, sig |-> 0]

SignedHdr(id) == [signer |-> id, key |-> id, hash_ok |-> TRUE, sig |-> 0]

PbftMessageInfo(ptype, view, seq_num, signer_id) ==
    [ptype |-> ptype, view |-> view, seq_num |-> seq_num, signer_id |-> signer_id]

PbftMessage(ptype, view, seq_num, signer_id, block_id) ==
    [ptype |-> ptype, view |-> view, seq_num |-> seq_num, signer_id |-> signer_id,
     block_id |-> block_id]

PbftSignedVote(hdr, pbft) == [hdr |-> hdr, msg |-> pbft]

PbftSeal(view, seq_num, signer_id, block_id, commit_votes) ==
    [view |-> view, seq_num |-> seq_num, signer_id |-> signer_id,
     block_id |-> block_id, commit_votes |-> commit_votes]

\* PbftSeal::default()
DefaultSeal == PbftSeal(0, 0, NoPeer, ZeroId, {})

\* ClayerBlock: seal is the set holding the decoded seal_bytes (empty when the
\* block carries no seal bytes), payload_ok is payload_id != B64::ZERO.
ClayerBlock(block_id, block_num, previous_id, signer_id, seal, payload_ok) ==
    [block_id |-> block_id, block_num |-> block_num, previous_id |-> previous_id,
     signer_id |-> signer_id, seal |-> seal, payload_ok |-> payload_ok]

GenesisBlock == ClayerBlock(GenesisId, 0, ZeroId, NoPeer, {}, FALSE)

(***************************************************************************)
(* ParsedMessage (consensus/message.rs)                                    *)
(***************************************************************************)
ParsedMessage(ptype, view, seq_num, signer_id, block_id, from_self, hdr, body) ==
    [ptype |-> ptype, view |-> view, seq_num |-> seq_num, signer_id |-> signer_id,
     block_id |-> block_id, from_self |-> from_self, hdr |-> hdr, body |-> body]

from_pbft_message(m) ==
    ParsedMessage(m.ptype, m.view, m.seq_num, m.signer_id, m.block_id, TRUE, NoHdr, {})

from_new_view_message(info, view_changes) ==
    ParsedMessage(NewView, info.view, info.seq_num, info.signer_id, ZeroId, TRUE, NoHdr,
                  view_changes)

from_block_new_message(info, block) ==
    ParsedMessage(BlockNew, info.view, info.seq_num, info.signer_id, block.block_id, TRUE,
                  NoHdr, {block})

from_signed_vote(vote) ==
    ParsedMessage(vote.msg.ptype, vote.msg.view, vote.msg.seq_num, vote.msg.signer_id,
                  vote.msg.block_id, FALSE, vote.hdr, {})

\* A message as it travels: the signed envelope of ClayerConsensusMessage.
Wire(m, sender) == [m EXCEPT !.from_self = FALSE, !.hdr = SignedHdr(sender)]

from_peer_message(w, own_id) == [w EXCEPT !.from_self = (w.signer_id = own_id)]

get_pbft(m) == PbftMessage(m.ptype, m.view, m.seq_num, m.signer_id, m.block_id)

signed_votes_from_messages(msgs) == {PbftSignedVote(m.hdr, get_pbft(m)) : m \in msgs}

(***************************************************************************)
(* PbftLog                                                                 *)
(***************************************************************************)
SameMessage(a, b) ==
    /\ a.ptype = b.ptype
    /\ a.view = b.view
    /\ a.seq_num = b.seq_num
    /\ a.signer_id = b.signer_id
    /\ a.block_id = b.block_id

add_message(messages, m) ==
    IF \E e \in messages : SameMessage(e, m) THEN messages ELSE messages \cup {m}

get_messages_of_type_seq(messages, ptype, seq_num) ==
    {m \in messages : m.ptype = ptype /\ m.seq_num = seq_num}

get_messages_of_type_view(messages, ptype, view) ==
    {m \in messages : m.ptype = ptype /\ m.view = view}

get_messages_of_type_seq_view(messages, ptype, seq_num, view) ==
    {m \in messages : m.ptype = ptype /\ m.seq_num = seq_num /\ m.view = view}

get_messages_of_type_seq_view_block(messages, ptype, seq_num, view, block_id) ==
    {m \in messages : /\ m.ptype = ptype
                      /\ m.seq_num = seq_num
                      /\ m.view = view
                      /\ m.block_id = block_id}

has_pre_prepare(messages, seq_num, view, block_id) ==
    get_messages_of_type_seq_view_block(messages, PrePrepare, seq_num, view, block_id) # {}

has_block(blocks, block_id) == \E b \in blocks : b.block_id = block_id

get_block_with_id(blocks, block_id) == CHOOSE b \in blocks : b.block_id = block_id

get_blocks_with_num(blocks, block_num) == {b \in blocks : b.block_num = block_num}

\* HashMap::insert keyed by block id
insert_block(blocks, block) == {b \in blocks : b.block_id # block.block_id} \cup {block}

garbage_collect(s) ==
    [s EXCEPT
       !.messages = {m \in @ : /\ m.seq_num + GcWindow >= s.seq_num
                               /\ m.seq_num <= s.seq_num + GcWindow
                               /\ (m.ptype = ViewChange => m.view > s.view)},
       !.blocks = {b \in @ : b.block_num + GcWindow >= s.seq_num},
       !.ublocks = {b \in @ : b.block_num + GcWindow >= s.seq_num}]

(***************************************************************************)
(* PbftState                                                               *)
(***************************************************************************)
ValidatorSet(s) == RangeOf(s.validators)

get_primary_id_at_view(s, view) == s.validators[(view % Len(s.validators)) + 1]

get_primary_id(s) == get_primary_id_at_view(s, s.view)

is_primary_at_view(s, view) == s.id = get_primary_id_at_view(s, view)

is_primary(s) == is_primary_at_view(s, s.view)

is_validator(s) == s.id \in ValidatorSet(s)

at_forced_view_change(s) == s.seq_num % ForcedViewChangePeriod = 0

NextPhaseOk(phase, desired) ==
    IF IsFinishing(desired) THEN phase = Committing
    ELSE \/ phase = PrePreparing /\ desired = Preparing
         \/ phase = Preparing /\ desired = Committing
         \/ IsFinishing(phase) /\ desired = PrePreparing

switch_phase(s, desired) ==
    IF NextPhaseOk(s.phase, desired)
    THEN [s EXCEPT !.phase = desired, !.res = OkRes,
                   !.trace = Append(@, <<s.phase, desired, "switch_phase">>)]
    ELSE [s EXCEPT !.res = InternalError]

Fail(s, err) == [s EXCEPT !.res = err]

Succeed(s) == [s EXCEPT !.res = OkRes]

Failed(s) == s.res # OkRes

\* agent.broadcast_consensus(peers, bytes): the envelope leaves the node
Emit(s, m, to) == [s EXCEPT !.out = @ \cup {[w |-> Wire(m, s.id), to |-> to]}]

(***************************************************************************)
(* Seal codec: verify_vote, verify_new_view, verify_consensus_seal,        *)
(* build_seal                                                              *)
(***************************************************************************)
SigningError == "SigningError"
Diverge == "Diverge"

\* verify_vote without the caller's criteria
verify_vote(vote, expected_type) ==
    IF vote.hdr.signer # vote.msg.signer_id THEN InvalidMessage
    ELSE IF vote.msg.ptype # expected_type THEN InvalidMessage
    ELSE IF vote.hdr.key # vote.hdr.signer THEN SigningError
    ELSE IF ~vote.hdr.hash_ok THEN SigningError
    ELSE OkRes

NewViewVoteOk(vote, view) ==
    /\ verify_vote(vote, ViewChange) = OkRes
    /\ vote.msg.view = view

\* verify_new_view that takes a NewView from any member
verify_new_view_any_signer(s, new_view) ==
    LET voter_ids == {v.msg.signer_id : v \in new_view.body}
        peer_ids == ValidatorSet(s) \ {new_view.signer_id}
    IN IF new_view.view <= s.view THEN InvalidMessage
       ELSE IF \E v \in new_view.body : ~NewViewVoteOk(v, new_view.view)
            THEN InvalidMessage
       ELSE IF ~(voter_ids \subseteq peer_ids) THEN InvalidMessage
       ELSE IF Cardinality(voter_ids) < 2 * s.f THEN InvalidMessage
       ELSE OkRes

verify_new_view(s, new_view) ==
    LET voter_ids == {v.msg.signer_id : v \in new_view.body}
        peer_ids == ValidatorSet(s) \ {new_view.signer_id}
    IN IF new_view.view <= s.view THEN InvalidMessage
       ELSE IF new_view.signer_id # get_primary_id_at_view(s, new_view.view)
            THEN InvalidMessage
       ELSE IF \E v \in new_view.body : ~NewViewVoteOk(v, new_view.view)
            THEN InvalidMessage
       ELSE IF ~(voter_ids \subseteq peer_ids) THEN InvalidMessage
       ELSE IF Cardinality(voter_ids) < 2 * s.f THEN InvalidMessage
       ELSE OkRes

SealVoteOk(vote, seal) ==
    /\ verify_vote(vote, Commit) = OkRes
    /\ vote.msg.block_id = seal.block_id
    /\ vote.msg.view = seal.view
    /\ vote.msg.seq_num = seal.seq_num

\* service.query_validators(ELECT_VOTING_ADDRESS, n) followed by assemble_peer_id:
\* the empty tuple stands for an answer that assemble_peer_id rejects.
OnChainMembers(s, n) == IF n \in DOMAIN s.onchain THEN s.onchain[n] ELSE <<>>

\* verify_consensus_seal that takes the votes from all the members, the
\* seal's signer included
verify_consensus_seal_signer_votes(s, seal, previous_id) ==
    LET voter_ids == {v.msg.signer_id : v \in seal.commit_votes}
        members == IF (seal.seq_num - 1) \in DOMAIN s.onchain
                   THEN RangeOf(s.onchain[seal.seq_num - 1]) ELSE {}
    IN IF \E v \in seal.commit_votes :
             \/ verify_vote(v, Commit) # OkRes
             \/ v.msg.block_id # seal.block_id
             \/ v.msg.view # seal.view
             \/ v.msg.seq_num # seal.seq_num
       THEN InvalidMessage
       ELSE IF seal.seq_num = 0 THEN Diverge
       ELSE IF members = {} THEN FaultyPrimary
       ELSE IF seal.signer_id \notin members THEN InvalidMessage
       ELSE IF ~(voter_ids \subseteq members) THEN InvalidMessage
       ELSE IF Cardinality(voter_ids) < 2 * s.f THEN InvalidMessage
       ELSE OkRes

verify_consensus_seal(s, seal, previous_id) ==
    LET voter_ids == {v.msg.signer_id : v \in seal.commit_votes}
        members == RangeOf(OnChainMembers(s, seal.seq_num - 1))
        peer_ids == members \ {seal.signer_id}
    IN IF \E v \in seal.commit_votes : ~SealVoteOk(v, seal) THEN InvalidMessage
       ELSE IF seal.seq_num = 0 THEN Diverge
       ELSE IF members = {} THEN FaultyPrimary
       ELSE IF seal.signer_id \notin members THEN InvalidMessage
       ELSE IF ~(voter_ids \subseteq peer_ids) THEN InvalidMessage
       ELSE IF Cardinality(voter_ids) < 2 * s.f THEN InvalidMessage
       ELSE OkRes

\* The groups of build_seal: Commit messages at seq_num - 1 that are not
\* from_self, grouped by (block_id, view), with at least 2f messages.
\* find_map over a HashMap takes whichever qualifying group comes first: in
\* build_seal the oracle s.orc.grp resolves the iteration order.
SealGroups(s) ==
    LET commits == {m \in get_messages_of_type_seq(s.messages, Commit, s.seq_num - 1) :
                        ~m.from_self}
        keys == {<<m.block_id, m.view>> : m \in commits}
    IN {k \in keys :
          Cardinality({m \in commits : m.block_id = k[1] /\ m.view = k[2]}) >= 2 * s.f}

CanBuildSeal(s) == SealGroups(s) # {}

\* build_seal that does not filter out the node's own Commit
build_seal_with_own(s) ==
    LET groups == SealGroups(s)
        k == IF s.orc.grp \in groups THEN s.orc.grp ELSE CHOOSE g \in groups : TRUE
        msgs == {m \in get_messages_of_type_seq(s.messages, Commit, s.seq_num - 1) :
                    m.block_id = k[1] /\ m.view = k[2]}
    IN PbftSeal(k[2], s.seq_num - 1, s.id, k[1], signed_votes_from_messages(msgs))

build_seal(s) ==
    LET groups == SealGroups(s)
        k == IF s.orc.grp \in groups THEN s.orc.grp ELSE CHOOSE g \in groups : TRUE
        msgs == {m \in get_messages_of_type_seq(s.messages, Commit, s.seq_num - 1) :
                    ~m.from_self /\ m.block_id = k[1] /\ m.view = k[2]}
    IN PbftSeal(k[2], s.seq_num - 1, s.id, k[1], signed_votes_from_messages(msgs))

\* Ghost: what build_seal returned, with the f and seq_num it was built under
Built(s) ==
    [s EXCEPT !.built = @ \cup {[seal |-> build_seal(s), f |-> s.f, seq_num |-> s.seq_num]}]

SealMessage(seal) ==
    ParsedMessage(Seal, seal.view, seal.seq_num, seal.signer_id, seal.block_id, TRUE,
                  NoHdr, seal.commit_votes)

get_seal(m) == PbftSeal(m.view, m.seq_num, m.signer_id, m.block_id, m.body)

save_seal(s, seal) ==
    [s EXCEPT !.seals = {x \in @ : x.block_id # seal.block_id} \cup {seal}]

send_seal_response(s, recipient) ==
    IF ~CanBuildSeal(s) THEN Fail(s, InternalError)
    ELSE Succeed(Emit(Built(s), SealMessage(build_seal(s)), {recipient}))

send_seal_response_v2(s, recipient, seal) ==
    Succeed(Emit(s, SealMessage(seal), {recipient}))

(***************************************************************************)
(* The state machine: on_peer_message and the handlers it dispatches to    *)
(***************************************************************************)
RECURSIVE on_peer_message(_, _, _)
RECURSIVE broadcast_message(_, _, _, _)
RECURSIVE broadcast_pbft_message(_, _, _, _, _)
RECURSIVE start_view_change(_, _)
RECURSIVE try_preparing(_, _)
RECURSIVE handle_pre_prepare(_, _)
RECURSIVE handle_prepare(_, _)
RECURSIVE handle_commit(_, _)
RECURSIVE handle_view_change(_, _)
RECURSIVE handle_new_view(_, _)
RECURSIVE handle_block_new(_, _)
RECURSIVE on_block_new(_, _)
RECURSIVE on_block_valid(_, _)
RECURSIVE try_handling_block(_, _)

\* push_block_event that puts the event at the back of the queue
push_block_event_back(s, event) == [s EXCEPT !.queued = Append(@, event)]

\* agent.push_block_event: VecDeque::push_front
push_block_event(s, event) == [s EXCEPT !.queued = <<event>> \o @]

BlockCommitEvent(block_id, timestamp, committing) ==
    [block_id |-> block_id, timestamp |-> timestamp, committing |-> committing]

broadcast_message(s, msg, to_all, to_self) ==
    IF to_all THEN Succeed(Emit(s, msg, PeerIds \ {s.id}))
    ELSE LET s1 == Emit(s, msg, ValidatorSet(s) \ {s.id})
         IN IF to_self THEN on_peer_message(s1, s.id, msg) ELSE Succeed(s1)

broadcast_pbft_message(s, view, seq_num, msg_type, block_id) ==
    broadcast_message(s,
                      from_pbft_message(PbftMessage(msg_type, view, seq_num, s.id, block_id)),
                      msg_type = AnnounceBlock,
                      msg_type # SealRequest)

\* start_view_change that refuses only a target below the one it is changing
\* to
start_view_change_again(s, view) ==
    IF IsViewChanging(s.mode) /\ view < s.mode.v THEN Succeed(s)
    ELSE broadcast_pbft_message(
             [s EXCEPT !.mode = ViewChanging(view),
                       !.idle_timeout = FALSE,
                       !.commit_timeout = FALSE,
                       !.view_change_timeout = FALSE],
             view, s.seq_num - 1, ViewChange, ZeroId)

start_view_change(s, view) ==
    IF IsViewChanging(s.mode) /\ view <= s.mode.v THEN Succeed(s)
    ELSE broadcast_pbft_message(
             [s EXCEPT !.mode = ViewChanging(view),
                       !.idle_timeout = FALSE,
                       !.commit_timeout = FALSE,
                       !.view_change_timeout = FALSE],
             view, s.seq_num - 1, ViewChange, ZeroId)

\* try_preparing that keeps its Prepare to itself
try_preparing_silent(s, block_id) ==
    IF /\ has_block(s.blocks, block_id)
       /\ s.phase = PrePreparing
       /\ has_pre_prepare(s.messages, s.seq_num, s.view, block_id)
       /\ get_block_with_id(s.blocks, block_id).block_num = s.seq_num
    THEN LET s1 == switch_phase(s, Preparing)
         IN IF Failed(s1) THEN s1
            ELSE Succeed([s1 EXCEPT !.idle_timeout = FALSE, !.commit_timeout = TRUE])
    ELSE Succeed(s)

\* try_preparing that does not compare the block's number with seq_num
try_preparing_any_height(s, block_id) ==
    IF /\ has_block(s.blocks, block_id)
       /\ s.phase = PrePreparing
       /\ has_pre_prepare(s.messages, s.seq_num, s.view, block_id)
    THEN LET s1 == switch_phase(s, Preparing)
             s2 == [s1 EXCEPT !.idle_timeout = FALSE, !.commit_timeout = TRUE]
         IN IF Failed(s1) THEN s1
            ELSE IF ~is_primary(s2)
                 THEN broadcast_pbft_message(s2, s2.view, s2.seq_num, Prepare, block_id)
                 ELSE Succeed(s2)
    ELSE Succeed(s)

try_preparing(s, block_id) ==
    IF /\ has_block(s.blocks, block_id)
       /\ s.phase = PrePreparing
       /\ has_pre_prepare(s.messages, s.seq_num, s.view, block_id)
       /\ get_block_with_id(s.blocks, block_id).block_num = s.seq_num
    THEN LET s1 == switch_phase(s, Preparing)
             s2 == [s1 EXCEPT !.idle_timeout = FALSE, !.commit_timeout = TRUE]
         IN IF Failed(s1) THEN s1
            ELSE IF ~is_primary(s2)
                 THEN broadcast_pbft_message(s2, s2.view, s2.seq_num, Prepare, block_id)
                 ELSE Succeed(s2)
    ELSE Succeed(s)

\* handle_pre_prepare that accepts a second PrePrepare without looking for one
\* already logged at the same view and sequence number
handle_pre_prepare_unchecked(s, msg) ==
    IF msg.signer_id # get_primary_id(s) THEN Succeed(s)
    ELSE IF msg.view # s.view THEN Fail(s, InvalidMessage)
    ELSE try_preparing([s EXCEPT !.messages = add_message(@, msg)], msg.block_id)

\* handle_pre_prepare without the check of the view
handle_pre_prepare_any_view(s, msg) ==
    IF msg.signer_id # get_primary_id(s) THEN Succeed(s)
    ELSE try_preparing([s EXCEPT !.messages = add_message(@, msg)], msg.block_id)

handle_pre_prepare(s, msg) ==
    LET mismatched_blocks ==
            {e.block_id : e \in {x \in get_messages_of_type_seq_view(
                                         s.messages, PrePrepare, msg.seq_num, msg.view) :
                                     x.block_id # msg.block_id}}
    IN IF msg.signer_id # get_primary_id(s) THEN Succeed(s)
       ELSE IF msg.view # s.view THEN Fail(s, InvalidMessage)
       ELSE IF mismatched_blocks # {}
            THEN LET s1 == start_view_change(s, s.view + 1)
                 IN IF Failed(s1) THEN s1 ELSE Fail(s1, FaultyPrimary)
       ELSE try_preparing([s EXCEPT !.messages = add_message(@, msg)], msg.block_id)

\* handle_prepare that reports the faulty primary without starting a view
\* change
handle_prepare_no_view_change(s, msg) ==
    IF msg.view # s.view THEN Fail(s, InvalidMessage)
    ELSE IF msg.signer_id = get_primary_id(s) THEN Fail(s, FaultyPrimary)
    ELSE LET s1 == [s EXCEPT !.messages = add_message(@, msg)]
         IN IF /\ msg.seq_num = s1.seq_num
               /\ s1.phase = Preparing
               /\ has_pre_prepare(s1.messages, msg.seq_num, msg.view, msg.block_id)
               /\ Cardinality(get_messages_of_type_seq_view_block(
                      s1.messages, Prepare, msg.seq_num, msg.view, msg.block_id)) > 2 * s1.f
            THEN LET s2 == switch_phase(s1, Committing)
                 IN IF Failed(s2) THEN s2
                    ELSE broadcast_pbft_message(s2, s2.view, s2.seq_num, Commit, msg.block_id)
            ELSE Succeed(s1)

\* handle_prepare that is content with 2f Prepares
handle_prepare_two_f(s, msg) ==
    IF msg.view # s.view THEN Fail(s, InvalidMessage)
    ELSE IF msg.signer_id = get_primary_id(s)
         THEN LET s1 == start_view_change(s, s.view + 1)
              IN IF Failed(s1) THEN s1 ELSE Fail(s1, FaultyPrimary)
    ELSE LET s1 == [s EXCEPT !.messages = add_message(@, msg)]
             has_matching_pre_prepare ==
                 has_pre_prepare(s1.messages, msg.seq_num, msg.view, msg.block_id)
             has_required_prepares ==
                 Cardinality(get_messages_of_type_seq_view_block(
                     s1.messages, Prepare, msg.seq_num, msg.view, msg.block_id)) >= 2 * s1.f
         IN IF /\ msg.seq_num = s1.seq_num
               /\ s1.phase = Preparing
               /\ has_matching_pre_prepare
               /\ has_required_prepares
            THEN LET s2 == switch_phase(s1, Committing)
                 IN IF Failed(s2) THEN s2
                    ELSE broadcast_pbft_message(s2, s2.view, s2.seq_num, Commit, msg.block_id)
            ELSE Succeed(s1)

handle_prepare(s, msg) ==
    IF msg.view # s.view THEN Fail(s, InvalidMessage)
    ELSE IF msg.signer_id = get_primary_id(s)
         THEN LET s1 == start_view_change(s, s.view + 1)
              IN IF Failed(s1) THEN s1 ELSE Fail(s1, FaultyPrimary)
    ELSE LET s1 == [s EXCEPT !.messages = add_message(@, msg)]
             has_matching_pre_prepare ==
                 has_pre_prepare(s1.messages, msg.seq_num, msg.view, msg.block_id)
             has_required_prepares ==
                 Cardinality(get_messages_of_type_seq_view_block(
                     s1.messages, Prepare, msg.seq_num, msg.view, msg.block_id)) > 2 * s1.f
         IN IF /\ msg.seq_num = s1.seq_num
               /\ s1.phase = Preparing
               /\ has_matching_pre_prepare
               /\ has_required_prepares
            THEN LET s2 == switch_phase(s1, Committing)
                 IN IF Failed(s2) THEN s2
                    ELSE broadcast_pbft_message(s2, s2.view, s2.seq_num, Commit, msg.block_id)
            ELSE Succeed(s1)

\* handle_commit that hands the block to the engine without entering Finishing
handle_commit_no_finishing(s, msg) ==
    IF msg.view # s.view THEN Fail(s, InvalidMessage)
    ELSE LET s1 == [s EXCEPT !.messages = add_message(@, msg)]
         IN IF /\ msg.seq_num = s1.seq_num
               /\ s1.phase = Committing
               /\ has_pre_prepare(s1.messages, msg.seq_num, msg.view, msg.block_id)
               /\ Cardinality(get_messages_of_type_seq_view_block(
                      s1.messages, Commit, msg.seq_num, msg.view, msg.block_id)) > 2 * s1.f
            THEN broadcast_pbft_message(
                     push_block_event(
                         [s1 EXCEPT !.engine_commits = @ \cup {msg.block_id},
                                    !.commit_timeout = FALSE],
                         BlockCommitEvent(msg.block_id, s1.seq_num, TRUE)),
                     s1.view, s1.seq_num, AnnounceBlock, msg.block_id)
            ELSE Succeed(s1)

\* handle_commit that is content with 2f Commits
handle_commit_two_f(s, msg) ==
    IF msg.view # s.view THEN Fail(s, InvalidMessage)
    ELSE LET s1 == [s EXCEPT !.messages = add_message(@, msg)]
         IN IF /\ msg.seq_num = s1.seq_num
               /\ s1.phase = Committing
               /\ has_pre_prepare(s1.messages, msg.seq_num, msg.view, msg.block_id)
               /\ Cardinality(get_messages_of_type_seq_view_block(
                      s1.messages, Commit, msg.seq_num, msg.view, msg.block_id)) >= 2 * s1.f
            THEN LET s2 == push_block_event(
                               [s1 EXCEPT !.engine_commits = @ \cup {msg.block_id}],
                               BlockCommitEvent(msg.block_id, s1.seq_num, TRUE))
                     s3 == switch_phase(s2, Finishing(FALSE))
                 IN IF Failed(s3) THEN s3
                    ELSE broadcast_pbft_message([s3 EXCEPT !.commit_timeout = FALSE],
                                                s3.view, s3.seq_num, AnnounceBlock, msg.block_id)
            ELSE Succeed(s1)

handle_commit(s, msg) ==
    IF msg.view # s.view THEN Fail(s, InvalidMessage)
    ELSE LET s1 == [s EXCEPT !.messages = add_message(@, msg)]
             has_matching_pre_prepare ==
                 has_pre_prepare(s1.messages, msg.seq_num, msg.view, msg.block_id)
             has_required_commits ==
                 Cardinality(get_messages_of_type_seq_view_block(
                     s1.messages, Commit, msg.seq_num, msg.view, msg.block_id)) > 2 * s1.f
         IN IF /\ msg.seq_num = s1.seq_num
               /\ s1.phase = Committing
               /\ has_matching_pre_prepare
               /\ has_required_commits
            THEN LET s2 == push_block_event(
                               [s1 EXCEPT !.engine_commits = @ \cup {msg.block_id}],
                               BlockCommitEvent(msg.block_id, s1.seq_num, TRUE))
                     s3 == switch_phase(s2, Finishing(FALSE))
                 IN IF Failed(s3) THEN s3
                    ELSE broadcast_pbft_message([s3 EXCEPT !.commit_timeout = FALSE],
                                                s3.view, s3.seq_num, AnnounceBlock, msg.block_id)
            ELSE Succeed(s1)

\* handle_view_change in which the new primary waits for 2f + 1 ViewChange
\* messages of other nodes
handle_view_change_late(s, msg) ==
    LET msg_view == msg.view
        s1 == [s EXCEPT !.messages = add_message(@, msg)]
        is_later_view == IF IsViewChanging(s1.mode) THEN msg_view > s1.mode.v ELSE TRUE
        messages == get_messages_of_type_view(s1.messages, ViewChange, msg_view)
        s2 == IF ~s1.view_change_timeout /\ Cardinality(messages) > 2 * s1.f
              THEN [s1 EXCEPT !.view_change_timeout = TRUE] ELSE s1
        messages_from_other_nodes == {m \in messages : ~m.from_self}
    IN IF msg_view <= s.view \/ (IsViewChanging(s.mode) /\ msg_view < s.mode.v)
       THEN Succeed(s)
       ELSE IF is_later_view /\ Cardinality(messages) > s1.f
            THEN start_view_change(s1, msg_view)
       ELSE IF /\ is_primary_at_view(s2, msg_view)
               /\ Cardinality(messages_from_other_nodes) > 2 * s2.f
            THEN broadcast_message(
                     s2,
                     from_new_view_message(
                         PbftMessageInfo(NewView, msg_view, s2.seq_num - 1, s2.id),
                         signed_votes_from_messages(messages_from_other_nodes)),
                     FALSE, TRUE)
       ELSE Succeed(s2)

\* handle_view_change that also drops a ViewChange for the view the node is
\* changing to
handle_view_change_own_target(s, msg) ==
    LET msg_view == msg.view
        s1 == [s EXCEPT !.messages = add_message(@, msg)]
        is_later_view == IF IsViewChanging(s1.mode) THEN msg_view > s1.mode.v ELSE TRUE
        messages == get_messages_of_type_view(s1.messages, ViewChange, msg_view)
        s2 == IF ~s1.view_change_timeout /\ Cardinality(messages) > 2 * s1.f
              THEN [s1 EXCEPT !.view_change_timeout = TRUE] ELSE s1
        messages_from_other_nodes == {m \in messages : ~m.from_self}
    IN IF msg_view <= s.view \/ (IsViewChanging(s.mode) /\ msg_view <= s.mode.v)
       THEN Succeed(s)
       ELSE IF is_later_view /\ Cardinality(messages) > s1.f
            THEN start_view_change(s1, msg_view)
       ELSE IF /\ is_primary_at_view(s2, msg_view)
               /\ Cardinality(messages_from_other_nodes) >= 2 * s2.f
            THEN broadcast_message(
                     s2,
                     from_new_view_message(
                         PbftMessageInfo(NewView, msg_view, s2.seq_num - 1, s2.id),
                         signed_votes_from_messages(messages_from_other_nodes)),
                     FALSE, TRUE)
       ELSE Succeed(s2)

\* handle_view_change that joins a view change on f ViewChange messages
handle_view_change_eager(s, msg) ==
    LET msg_view == msg.view
        s1 == [s EXCEPT !.messages = add_message(@, msg)]
        is_later_view == IF IsViewChanging(s1.mode) THEN msg_view > s1.mode.v ELSE TRUE
        messages == get_messages_of_type_view(s1.messages, ViewChange, msg_view)
        s2 == IF ~s1.view_change_timeout /\ Cardinality(messages) > 2 * s1.f
              THEN [s1 EXCEPT !.view_change_timeout = TRUE] ELSE s1
        messages_from_other_nodes == {m \in messages : ~m.from_self}
    IN IF msg_view <= s.view \/ (IsViewChanging(s.mode) /\ msg_view < s.mode.v)
       THEN Succeed(s)
       ELSE IF is_later_view /\ Cardinality(messages) >= s1.f
            THEN start_view_change(s1, msg_view)
       ELSE IF /\ is_primary_at_view(s2, msg_view)
               /\ Cardinality(messages_from_other_nodes) >= 2 * s2.f
            THEN broadcast_message(
                     s2,
                     from_new_view_message(
                         PbftMessageInfo(NewView, msg_view, s2.seq_num - 1, s2.id),
                         signed_votes_from_messages(messages_from_other_nodes)),
                     FALSE, TRUE)
       ELSE Succeed(s2)

handle_view_change(s, msg) ==
    LET msg_view == msg.view
        s1 == [s EXCEPT !.messages = add_message(@, msg)]
        is_later_view == IF IsViewChanging(s1.mode) THEN msg_view > s1.mode.v ELSE TRUE
        messages == get_messages_of_type_view(s1.messages, ViewChange, msg_view)
        s2 == IF ~s1.view_change_timeout /\ Cardinality(messages) > 2 * s1.f
              THEN [s1 EXCEPT !.view_change_timeout = TRUE] ELSE s1
        messages_from_other_nodes == {m \in messages : ~m.from_self}
    IN IF msg_view <= s.view \/ (IsViewChanging(s.mode) /\ msg_view < s.mode.v)
       THEN Succeed(s)
       ELSE IF is_later_view /\ Cardinality(messages) > s1.f
            THEN start_view_change(s1, msg_view)
       ELSE IF /\ is_primary_at_view(s2, msg_view)
               /\ Cardinality(messages_from_other_nodes) >= 2 * s2.f
            THEN broadcast_message(
                     s2,
                     from_new_view_message(
                         PbftMessageInfo(NewView, msg_view, s2.seq_num - 1, s2.id),
                         signed_votes_from_messages(messages_from_other_nodes)),
                     FALSE, TRUE)
       ELSE Succeed(s2)

handle_new_view(s, msg) ==
    IF verify_new_view(s, msg) # OkRes THEN Fail(s, InvalidMessage)
    ELSE Succeed([s EXCEPT !.view = msg.view,
                           !.view_change_timeout = FALSE,
                           !.mode = Normal,
                           !.phase = IF IsFinishing(@) THEN @ ELSE PrePreparing,
                           !.trace = IF IsFinishing(s.phase) THEN @
                                     ELSE Append(@, <<s.phase, PrePreparing, "handle_new_view">>),
                           !.idle_timeout = TRUE])

handle_seal_request(s, peer_id, msg) ==
    IF s.seq_num = msg.seq_num + 1 THEN send_seal_response(s, msg.signer_id)
    ELSE IF s.seq_num = msg.seq_num
         THEN Succeed([s EXCEPT !.messages = add_message(@, msg)])
    ELSE IF s.seq_num > msg.seq_num + 1 /\ \E x \in s.seals : x.block_id = msg.block_id
         THEN send_seal_response_v2(s, peer_id,
                                    CHOOSE x \in s.seals : x.block_id = msg.block_id)
    ELSE Succeed(s)

\* catchup that moves to the next sequence number itself instead of leaving it
\* to the BlockCommit it queues
catchup_advancing(s, seal, catchup_again) ==
    IF seal.commit_votes = {} THEN Fail(s, "Panic")
    ELSE Succeed(save_seal(
             [push_block_event(s, BlockCommitEvent(seal.block_id, seal.seq_num, FALSE))
                 EXCEPT !.idle_timeout = FALSE,
                        !.seq_num = @ + 1,
                        !.phase = Finishing(catchup_again),
                        !.trace = Append(@, <<s.phase, Finishing(catchup_again), "catchup">>)],
             seal))

catchup(s, seal, catchup_again) ==
    IF seal.commit_votes = {} THEN Fail(s, "Panic")
    ELSE
    LET messages == {from_signed_vote(v) : v \in seal.commit_votes}
        view == (CHOOSE m \in messages : TRUE).view
        AddAll[ms \in SUBSET messages] ==
            IF ms = {} THEN s.messages
            ELSE LET m == CHOOSE x \in ms : TRUE IN add_message(AddAll[ms \ {m}], m)
        s1 == [s EXCEPT !.view = view, !.messages = AddAll[messages]]
        s2 == IF s.orc.latest THEN s1
              ELSE [s1 EXCEPT !.engine_commits = @ \cup {seal.block_id}]
    IN IF ~s.orc.header THEN Fail(s2, InternalError)
       ELSE Succeed(save_seal(
                [push_block_event(s2, BlockCommitEvent(seal.block_id, seal.seq_num, FALSE))
                    EXCEPT !.idle_timeout = FALSE,
                           !.phase = Finishing(catchup_again),
                           !.trace = Append(@, <<s.phase, Finishing(catchup_again),
                                                 "catchup">>)],
                seal))

\* handle_seal_response that takes a seal for a block of any height
handle_seal_response_any_height(s, msg) ==
    LET seal == get_seal(msg) IN
    IF IsFinishing(s.phase) THEN Succeed(s)
    ELSE IF ~has_block(s.blocks, seal.block_id) THEN Fail(s, InvalidMessage)
    ELSE LET r == verify_consensus_seal(
                      s, seal, get_block_with_id(s.blocks, seal.block_id).previous_id)
         IN IF r = Diverge THEN Fail(s, Diverge)
            ELSE IF r # OkRes THEN Fail(s, InvalidMessage)
            ELSE catchup(s, seal, FALSE)

handle_seal_response(s, msg) ==
    LET seal == get_seal(msg) IN
    IF IsFinishing(s.phase) THEN Succeed(s)
    ELSE IF ~has_block(s.blocks, seal.block_id) THEN Fail(s, InvalidMessage)
    ELSE IF get_block_with_id(s.blocks, seal.block_id).block_num # s.seq_num
         THEN Fail(s, InvalidMessage)
    ELSE LET r == verify_consensus_seal(
                      s, seal, get_block_with_id(s.blocks, seal.block_id).previous_id)
         IN IF r = Diverge THEN Fail(s, Diverge)
            ELSE IF r # OkRes THEN Fail(s, InvalidMessage)
            ELSE catchup(s, seal, FALSE)

\* LruCache::insert with capacity 10: the least recently inserted entry leaves
AnnounceCapacity == 10

\* handle_announceblock_response that does not remember what it announced
handle_announceblock_response_uncached(s, msg) ==
    broadcast_pbft_message([s EXCEPT !.announced = Append(@, msg.block_id)],
                           s.view, s.seq_num, AnnounceBlock, msg.block_id)

handle_announceblock_response(s, msg) ==
    IF msg.block_id \in RangeOf(s.announce_block) THEN Succeed(s)
    ELSE broadcast_pbft_message(
             [s EXCEPT !.announce_block =
                           IF Len(@) >= AnnounceCapacity
                           THEN Append(Tail(@), msg.block_id)
                           ELSE Append(@, msg.block_id),
                       !.announced = Append(@, msg.block_id)],
             s.view, s.seq_num, AnnounceBlock, msg.block_id)

\* handle_new_validator that does not look at the peer the notice names
handle_new_validator_any_peer(s, msg) ==
    IF ~s.becoming_validator
    THEN Succeed([s EXCEPT !.becoming_validator = TRUE])
    ELSE Succeed(s)

handle_new_validator(s, msg) ==
    IF \E p \in msg.body : p.peerid = s.id /\ ~s.becoming_validator
    THEN Succeed([s EXCEPT !.becoming_validator = TRUE])
    ELSE Succeed(s)

\* A sealed header of the block store
SealedHeader(hash, number, parent_hash) ==
    [hash |-> hash, number |-> number, parent_hash |-> parent_hash]

clayer_block_from_header(header) ==
    ClayerBlock(header.hash, header.number, header.parent_hash, NoPeer, {}, FALSE)

\* sync_seal once the minimum interval has passed.  headers are the sealed
\* headers client.sealed_header_by_id finds, by number; latest is the number
\* of client.latest_header(), 0 when there is none.  The loop runs over
\* seq_num..latest, skips the numbers up to has_send_seal and stops at the
\* first header that is missing.
sync_seal(s, headers, latest) ==
    LET RECURSIVE Loop(_, _)
        Loop(t, seq) ==
            IF seq > latest \/ Failed(t) THEN t
            ELSE IF seq <= t.has_send_seal THEN Loop(t, seq + 1)
            ELSE IF seq \notin DOMAIN headers THEN t
            ELSE Loop([broadcast_pbft_message(t, t.view, t.seq_num, SealRequest,
                                              headers[seq].hash)
                          EXCEPT !.blocks = insert_block(
                                                @, clayer_block_from_header(headers[seq])),
                                 !.has_send_seal = headers[seq].number],
                      seq + 1)
    IN IF ~(is_validator(s) \/ s.becoming_validator) THEN Succeed(s)
       ELSE IF latest < s.seq_num THEN Succeed(s)
       ELSE Loop(Succeed(s), s.seq_num)

(***************************************************************************)
(* Blocks: on_block_new, on_block_valid, try_handling_block,               *)
(* on_block_invalid, on_block_commit                                       *)
(***************************************************************************)
fail_block(s, block_id) == [s EXCEPT !.failed = @ \cup {block_id}]

\* The Result of verify_consensus_seal_from_block
verify_consensus_seal_from_block(s, block) ==
    IF block.block_num < 2 THEN OkRes
    ELSE IF block.seal = {} THEN InvalidMessage
    ELSE LET seal == CHOOSE x \in block.seal : TRUE
         IN IF seal.block_id # block.previous_id THEN InvalidMessage
            ELSE IF ~has_block(s.blocks, seal.block_id) THEN InternalError
            ELSE verify_consensus_seal(
                     s, seal, get_block_with_id(s.blocks, seal.block_id).previous_id)

\* The seal verify_consensus_seal_from_block returns on success
SealFromBlock(block) ==
    IF block.block_num < 2 THEN DefaultSeal ELSE CHOOSE x \in block.seal : TRUE

\* try_handling_block that verifies the seal of any block
try_handling_block_no_defer(s, block) ==
    LET r == verify_consensus_seal_from_block(s, block)
        is_waiting == IsFinishing(s.phase)
    IN IF r = Diverge THEN Fail(s, Diverge)
       ELSE IF r # OkRes THEN Fail(fail_block(s, block.block_id), InvalidMessage)
       ELSE IF block.block_num > s.seq_num /\ ~is_waiting
            THEN catchup(s, SealFromBlock(block), TRUE)
       ELSE IF block.block_num = s.seq_num
            THEN IF block.signer_id = s.id /\ is_primary(s)
                 THEN broadcast_pbft_message(s, s.view, s.seq_num, PrePrepare,
                                             block.block_id)
                 ELSE try_preparing(s, block.block_id)
       ELSE Succeed(s)

try_handling_block(s, block) ==
    IF block.block_num > s.seq_num + 1 THEN Succeed(s)
    ELSE LET r == verify_consensus_seal_from_block(s, block)
             is_waiting == IsFinishing(s.phase)
         IN IF r = Diverge THEN Fail(s, Diverge)
            ELSE IF r # OkRes THEN Fail(fail_block(s, block.block_id), InvalidMessage)
            ELSE IF block.block_num > s.seq_num /\ ~is_waiting
                 THEN catchup(s, SealFromBlock(block), TRUE)
            ELSE IF block.block_num = s.seq_num
                 THEN IF block.signer_id = s.id /\ is_primary(s)
                      THEN broadcast_pbft_message(s, s.view, s.seq_num, PrePrepare,
                                                  block.block_id)
                      ELSE try_preparing(s, block.block_id)
            ELSE Succeed(s)

on_block_valid(s, block_id) ==
    IF ~has_block(s.ublocks, block_id) THEN Fail(s, InvalidMessage)
    ELSE LET block == get_block_with_id(s.ublocks, block_id)
         IN try_handling_block(
                [s EXCEPT !.ublocks = @ \ {block}, !.blocks = insert_block(@, block)],
                block)

\* on_block_new that does not look for the previous block
on_block_new_any_parent(s, block) ==
    IF block.block_num < s.seq_num
    THEN Fail(fail_block(s, block.block_id), InternalError)
    ELSE LET s1 == [s EXCEPT !.ublocks = insert_block(@, block)]
         IN IF ~block.payload_ok THEN Fail(s1, InternalError)
            ELSE on_block_valid(s1, block.block_id)

on_block_new(s, block) ==
    LET known == s.blocks \cup {b \in s.ublocks : ~has_block(s.blocks, b.block_id)} IN
    IF block.block_num < s.seq_num
    THEN Fail(fail_block(s, block.block_id), InternalError)
    ELSE IF ~has_block(known, block.previous_id)
         THEN Fail(fail_block(s, block.block_id), InternalError)
    ELSE IF get_block_with_id(known, block.previous_id).block_num # block.block_num - 1
         THEN Fail(fail_block(s, block.block_id), InternalError)
    ELSE LET s1 == [s EXCEPT !.ublocks = insert_block(@, block)]
         IN IF ~block.payload_ok THEN Fail(s1, InternalError)
            ELSE on_block_valid(s1, block.block_id)

handle_block_new(s, msg) == on_block_new(s, CHOOSE b \in msg.body : TRUE)

on_block_invalid(s, block_id) ==
    IF ~has_block(s.ublocks, block_id) THEN Fail(s, InvalidMessage)
    ELSE Succeed(fail_block([s EXCEPT !.ublocks = {b \in @ : b.block_id # block_id}],
                            block_id))

\* on_peer_message without the membership check
on_peer_message_any_signer(s, peer_id, msg) ==
    IF ~is_validator(s)
    THEN CASE msg.ptype = AnnounceBlock -> handle_announceblock_response(s, msg)
           [] msg.ptype = NewValidator -> handle_new_validator(s, msg)
           [] msg.ptype = Seal /\ s.becoming_validator -> handle_seal_response(s, msg)
           [] OTHER -> Succeed(s)
    ELSE IF IsViewChanging(s.mode) /\ msg.ptype # ViewChange /\ msg.ptype # NewView
         THEN Succeed(s)
    ELSE CASE msg.ptype = PrePrepare -> handle_pre_prepare(s, msg)
           [] msg.ptype = Prepare -> handle_prepare(s, msg)
           [] msg.ptype = Commit -> handle_commit(s, msg)
           [] msg.ptype = ViewChange -> handle_view_change(s, msg)
           [] msg.ptype = NewView -> handle_new_view(s, msg)
           [] msg.ptype = SealRequest -> handle_seal_request(s, peer_id, msg)
           [] msg.ptype = Seal -> handle_seal_response(s, msg)
           [] msg.ptype = BlockNew -> handle_block_new(s, msg)
           [] msg.ptype = AnnounceBlock -> handle_announceblock_response(s, msg)
           [] OTHER -> Succeed(s)

\* on_peer_message that lets Commit messages through while the node is view
\* changing
on_peer_message_commit_in_view_change(s, peer_id, msg) ==
    IF msg.signer_id \notin ValidatorSet(s) THEN Fail(s, InvalidMessage)
    ELSE IF ~is_validator(s)
         THEN CASE msg.ptype = AnnounceBlock -> handle_announceblock_response(s, msg)
                [] msg.ptype = NewValidator -> handle_new_validator(s, msg)
                [] msg.ptype = Seal /\ s.becoming_validator -> handle_seal_response(s, msg)
                [] OTHER -> Succeed(s)
    ELSE IF /\ IsViewChanging(s.mode)
            /\ msg.ptype \notin {ViewChange, NewView, Commit}
         THEN Succeed(s)
    ELSE CASE msg.ptype = PrePrepare -> handle_pre_prepare(s, msg)
           [] msg.ptype = Prepare -> handle_prepare(s, msg)
           [] msg.ptype = Commit -> handle_commit(s, msg)
           [] msg.ptype = ViewChange -> handle_view_change(s, msg)
           [] msg.ptype = NewView -> handle_new_view(s, msg)
           [] msg.ptype = SealRequest -> handle_seal_request(s, peer_id, msg)
           [] msg.ptype = Seal -> handle_seal_response(s, msg)
           [] msg.ptype = BlockNew -> handle_block_new(s, msg)
           [] msg.ptype = AnnounceBlock -> handle_announceblock_response(s, msg)
           [] OTHER -> Succeed(s)

on_peer_message(s, peer_id, msg) ==
    IF msg.signer_id \notin ValidatorSet(s) THEN Fail(s, InvalidMessage)
    ELSE IF ~is_validator(s)
         THEN LET s1 == CASE msg.ptype = AnnounceBlock -> handle_announceblock_response(s, msg)
                          [] msg.ptype = NewValidator -> handle_new_validator(s, msg)
                          [] msg.ptype = Seal /\ s.becoming_validator ->
                                 handle_seal_response(s, msg)
                          [] OTHER -> Succeed(s)
              IN s1
    ELSE IF IsViewChanging(s.mode) /\ msg.ptype # ViewChange /\ msg.ptype # NewView
         THEN Succeed(s)
    ELSE CASE msg.ptype = PrePrepare -> handle_pre_prepare(s, msg)
           [] msg.ptype = Prepare -> handle_prepare(s, msg)
           [] msg.ptype = Commit -> handle_commit(s, msg)
           [] msg.ptype = ViewChange -> handle_view_change(s, msg)
           [] msg.ptype = NewView -> handle_new_view(s, msg)
           [] msg.ptype = SealRequest -> handle_seal_request(s, peer_id, msg)
           [] msg.ptype = Seal -> handle_seal_response(s, msg)
           [] msg.ptype = BlockNew -> handle_block_new(s, msg)
           [] msg.ptype = AnnounceBlock -> handle_announceblock_response(s, msg)
           [] OTHER -> Succeed(s)

\* validators.compare: the peers the on-chain list adds to the node's list
AddedPeers(s, on_chain_members) == RangeOf(on_chain_members) \ ValidatorSet(s)

\* update_membership that keeps the f of the old validator list
update_membership_stale_f(s, block_number) ==
    LET last_is_validator == is_validator(s)
        answer == OnChainMembers(s, block_number)
        on_chain_members == IF answer = <<>> THEN s.validators ELSE answer
        added == AddedPeers(s, on_chain_members)
        f == (Len(on_chain_members) - 1) \div 3
        s1 == IF s.validators # on_chain_members
              THEN [s EXCEPT !.validators = on_chain_members,
                             !.halted = (f = 0)]
              ELSE s
        s2 == IF last_is_validator /\ is_validator(s1) /\ added # {}
              THEN Emit(s1,
                        ParsedMessage(NewValidator, s1.view, block_number, s1.id, ZeroId,
                                      TRUE, NoHdr,
                                      {[peerid |-> CHOOSE p \in added : TRUE]}),
                        ValidatorSet(s1) \ {s1.id})
              ELSE s1
    IN IF s1.halted THEN s1
       ELSE IF is_validator(s2) /\ s2.becoming_validator
            THEN [s2 EXCEPT !.becoming_validator = FALSE]
            ELSE s2

update_membership(s, block_number) ==
    LET last_is_validator == is_validator(s)
        answer == OnChainMembers(s, block_number)
        on_chain_members == IF answer = <<>> THEN s.validators ELSE answer
        added == AddedPeers(s, on_chain_members)
        f == (Len(on_chain_members) - 1) \div 3
        s1 == IF s.validators # on_chain_members
              THEN [s EXCEPT !.validators = on_chain_members,
                             !.f = IF f = 0 THEN @ ELSE f,
                             !.halted = (f = 0)]
              ELSE s
        s2 == IF last_is_validator /\ is_validator(s1) /\ added # {}
              THEN Emit(s1,
                        ParsedMessage(NewValidator, s1.view, block_number, s1.id, ZeroId,
                                      TRUE, NoHdr,
                                      {[peerid |-> CHOOSE p \in added : TRUE]}),
                        ValidatorSet(s1) \ {s1.id})
              ELSE s1
    IN IF s1.halted THEN s1
       ELSE IF is_validator(s2) /\ s2.becoming_validator
            THEN [s2 EXCEPT !.becoming_validator = FALSE]
            ELSE s2

\* for req in requesters { send_seal_response(..).unwrap_or_else(log) }
SendSealToRequesters(s) ==
    LET requesters == {m.signer_id :
                          m \in get_messages_of_type_seq(s.messages, SealRequest,
                                                         s.seq_num - 1)}
    IN IF requesters = {} THEN s
       ELSE IF CanBuildSeal(s)
       THEN [Built(s) EXCEPT !.out = @ \cup {[w |-> Wire(SealMessage(build_seal(s)), s.id),
                                              to |-> {r}] : r \in requesters}]
       ELSE s

\* for block in grandchildren { if try_handling_block(block).is_ok() { return Ok } }
RECURSIVE TryGrandchildren(_, _)
TryGrandchildren(s, todo) ==
    IF todo = <<>> THEN Fail(s, "NoGrandchild")
    ELSE LET s1 == try_handling_block(s, Head(todo))
         IN IF ~Failed(s1) THEN s1 ELSE TryGrandchildren(s1, Tail(todo))

\* for id in block_ids { try_preparing(id)? }
RECURSIVE TryPreparingAll(_, _)
TryPreparingAll(s, todo) ==
    IF todo = <<>> THEN Succeed(s)
    ELSE LET s1 == try_preparing(s, Head(todo))
         IN IF Failed(s1) THEN s1 ELSE TryPreparingAll(s1, Tail(todo))

\* on_block_commit that starts the idle timer before it asks for the seal
on_block_commit_idle(s, block_id, timestamp, committing) ==
    LET is_catching_up == s.phase = FinishingTrue
        invalid_block_ids == {b.block_id : b \in {x \in get_blocks_with_num(s.blocks, s.seq_num) :
                                                     x.block_id # block_id}}
        s1 == [s EXCEPT !.failed = @ \cup invalid_block_ids,
                        !.seq_num = @ + 1,
                        !.mode = Normal,
                        !.phase = PrePreparing,
                        !.trace = Append(@, <<s.phase, PrePreparing, "on_block_commit">>),
                        !.chain_head = block_id,
                        !.last_block_timestamp = timestamp,
                        !.chain = Append(@, block_id)]
        s2 == IF committing THEN save_seal(Built(s1), build_seal(s1)) ELSE s1
        s3 == update_membership(SendSealToRequesters(s2), s2.seq_num - 1)
        s4 == garbage_collect(IF at_forced_view_change(s3)
                              THEN [s3 EXCEPT !.view = @ + 1] ELSE s3)
        s5 == TryGrandchildren(s4, SetToSeq(get_blocks_with_num(s4.blocks, s4.seq_num + 1)))
        s6 == [s5 EXCEPT !.idle_timeout = TRUE]
    IN IF committing /\ ~CanBuildSeal(s1) THEN Fail(s1, InternalError)
       ELSE IF s3.halted THEN Fail(s3, "Panic")
       ELSE IF ~Failed(s5) THEN s5
       ELSE IF is_catching_up
            THEN broadcast_pbft_message(s6, s6.view, s6.seq_num, SealRequest, ZeroId)
       ELSE TryPreparingAll(
                s6, SetToSeq({b.block_id : b \in get_blocks_with_num(s6.blocks, s6.seq_num)}))

on_block_commit(s, block_id, timestamp, committing) ==
    LET is_catching_up == s.phase = FinishingTrue
        invalid_block_ids == {b.block_id : b \in {x \in get_blocks_with_num(s.blocks, s.seq_num) :
                                                     x.block_id # block_id}}
        s1 == [s EXCEPT !.failed = @ \cup invalid_block_ids,
                        !.seq_num = @ + 1,
                        !.mode = Normal,
                        !.phase = PrePreparing,
                        !.trace = Append(@, <<s.phase, PrePreparing, "on_block_commit">>),
                        !.chain_head = block_id,
                        !.last_block_timestamp = timestamp,
                        !.chain = Append(@, block_id)]
        s2 == IF committing THEN save_seal(Built(s1), build_seal(s1)) ELSE s1
        s3 == update_membership(SendSealToRequesters(s2), s2.seq_num - 1)
        s4 == garbage_collect(IF at_forced_view_change(s3)
                              THEN [s3 EXCEPT !.view = @ + 1] ELSE s3)
        s5 == TryGrandchildren(s4, SetToSeq(get_blocks_with_num(s4.blocks, s4.seq_num + 1)))
        s6 == [s5 EXCEPT !.idle_timeout = TRUE]
    IN IF committing /\ ~CanBuildSeal(s1) THEN Fail(s1, InternalError)
       ELSE IF s3.halted THEN Fail(s3, "Panic")
       ELSE IF ~Failed(s5) THEN s5
       ELSE IF is_catching_up
            THEN broadcast_pbft_message(s5, s5.view, s5.seq_num, SealRequest, ZeroId)
       ELSE TryPreparingAll(
                s6, SetToSeq({b.block_id : b \in get_blocks_with_num(s6.blocks, s6.seq_num)}))

(***************************************************************************)
(* The engine loop: try_publish and the timeouts                           *)
(***************************************************************************)
\* service.finalize_block: the block the execution engine built on chain_head
FinalizedBlock(s, seal) ==
    ClayerBlock(<<s.seq_num, s.id, 0>>, s.seq_num, s.chain_head, s.id, seal, TRUE)

broadcast_block_new(s, block) ==
    broadcast_message(
        s, from_block_new_message(PbftMessageInfo(BlockNew, s.view, s.seq_num, s.id), block),
        FALSE, TRUE)

\* The error of a seal that does not decode
SerializationError == "SerializationError"

\* The Commit for the chain head that a node sends to a peer that has
\* connected, at the view of the seal in the chain head (view 0 at seq_num 1);
\* PbftSeal::decode fails on the empty seal_bytes of a block without a seal
broadcast_bootstrap_commit(s, peer_id) ==
    LET Send(view) ==
            Succeed(Emit(s, from_pbft_message(PbftMessage(Commit, view, s.seq_num - 1, s.id,
                                                          s.chain_head)),
                         {peer_id}))
    IN IF s.seq_num = 1 THEN Send(0)
       ELSE IF ~has_block(s.blocks, s.chain_head) THEN Fail(s, InternalError)
       ELSE IF get_block_with_id(s.blocks, s.chain_head).seal = {}
            THEN Fail(s, SerializationError)
       ELSE Send((CHOOSE x \in get_block_with_id(s.blocks, s.chain_head).seal : TRUE).view)

on_peer_connected(s, peer_id) ==
    IF peer_id \notin ValidatorSet(s) \/ s.seq_num = 0 \/ ~is_validator(s) THEN Succeed(s)
    ELSE broadcast_bootstrap_commit(s, peer_id)

try_publish(s) ==
    IF ~is_primary(s) \/ s.phase # PrePreparing THEN Succeed(s)
    ELSE IF s.seq_num <= 1 THEN broadcast_block_new(s, FinalizedBlock(s, {}))
    ELSE IF ~CanBuildSeal(s) THEN Fail(s, InternalError)
    ELSE broadcast_block_new(Built(s), FinalizedBlock(s, {build_seal(s)}))

(***************************************************************************)
(* Construction                                                            *)
(***************************************************************************)
NoOrc == [grp |-> <<ZeroId, 0>>, latest |-> TRUE, header |-> TRUE]

StaticChain == [n \in 0..(MaxSeq + 1) |-> Members]

\* PbftState::new followed by initialize() on the genesis block
InitNode(id) ==
    [id |-> id, view |-> 0, seq_num |-> 1, phase |-> PrePreparing, mode |-> Normal,
     validators |-> Members, f |-> (Len(Members) - 1) \div 3, chain_head |-> GenesisId,
     last_block_timestamp |-> 0, becoming_validator |-> FALSE, halted |-> FALSE,
     idle_timeout |-> TRUE, commit_timeout |-> FALSE, view_change_timeout |-> FALSE,
     messages |-> {}, blocks |-> {GenesisBlock}, ublocks |-> {},
     seals |-> {}, queued |-> <<>>, announce_block |-> <<>>,
     onchain |-> StaticChain,
     announced |-> <<>>, failed |-> {}, engine_commits |-> {}, chain |-> <<>>,
     built |-> {}, has_send_seal |-> 0,
     res |-> OkRes, out |-> {}, trace |-> <<>>, orc |-> NoOrc]

\* What a handler leaves behind once it has returned
Settle(s) == [s EXCEPT !.res = OkRes, !.out = {}, !.trace = <<>>, !.orc = NoOrc]

\* The oracle values that can make a difference in state s: the order of the
\* groups of build_seal, and what the block store answers in catchup
\* (client.latest_header is None, client.header_by_id finds the header).
GroupChoices(s) ==
    LET g == {<<m.block_id, m.view>> : m \in {x \in s.messages : x.ptype = Commit}}
    IN IF Cardinality(g) <= 1 THEN {NoOrc.grp} ELSE g

Orcs(s, catching) ==
    [grp : GroupChoices(s),
     latest : IF catching THEN BOOLEAN ELSE {TRUE},
     header : IF catching THEN BOOLEAN ELSE {TRUE}]

\* A handler has run at node n: pending are the envelopes still in flight
Step(op, n, msg, s, pending) ==
    /\ node' = [node EXCEPT ![n] = Settle(s)]
    /\ net' = pending \cup s.out
    /\ last' = [op |-> op, n |-> n, msg |-> msg, res |-> s.res, sent |-> s.out,
                trace |-> s.trace]
    /\ UNCHANGED env

\* The message of a call that takes none
NoMsg == [ptype |-> "None"]

Call(op, n, msg, s) == Step(op, n, msg, s, net)

Idle(n) == node[n].queued = <<>> /\ ~node[n].halted

(***************************************************************************)
(* Events of one node                                                      *)
(***************************************************************************)
\* pop_event() returned a PeerMessage the environment had pushed
PeerMessage(n) ==
    /\ Idle(n)
    /\ \E w \in env.universe :
       \E o \in Orcs(node[n], w.ptype \in {Seal, BlockNew}) :
          Call("on_peer_message", n, w,
               on_peer_message([node[n] EXCEPT !.orc = o], w.hdr.key,
                               from_peer_message(w, node[n].id)))

\* pop_event() returned the BlockCommit at the head of the queue
BlockCommit(n) ==
    /\ node[n].queued # <<>>
    /\ ~node[n].halted
    /\ \E o \in Orcs(node[n], TRUE) :
          LET ev == Head(node[n].queued)
          IN Call("on_block_commit", n, ev,
                  on_block_commit([node[n] EXCEPT !.queued = Tail(@), !.orc = o],
                                  ev.block_id, ev.timestamp, ev.committing))

TryPublish(n) ==
    /\ Idle(n)
    /\ is_validator(node[n])
    /\ node[n].seq_num <= MaxSeq
    /\ is_primary(node[n]) /\ node[n].phase = PrePreparing
    /\ ~has_block(node[n].blocks \cup node[n].ublocks, <<node[n].seq_num, node[n].id, 0>>)
    /\ \E o \in Orcs(node[n], FALSE) :
          Call("try_publish", n, NoMsg, try_publish([node[n] EXCEPT !.orc = o]))

\* The engine loop found an expired timeout
IdleTimeout(n) ==
    /\ ~node[n].halted
    /\ node[n].idle_timeout
    /\ node[n].view < MaxView
    /\ Call("idle_timeout", n, NoMsg, start_view_change(node[n], node[n].view + 1))

CommitTimeout(n) ==
    /\ ~node[n].halted
    /\ node[n].commit_timeout
    /\ node[n].view < MaxView
    /\ Call("commit_timeout", n, NoMsg, start_view_change(node[n], node[n].view + 1))

ViewChangeTimeout(n) ==
    /\ ~node[n].halted
    /\ node[n].view_change_timeout
    /\ IsViewChanging(node[n].mode)
    /\ node[n].mode.v < MaxView
    /\ Call("view_change_timeout", n, NoMsg, start_view_change(node[n], node[n].mode.v + 1))

(***************************************************************************)
(* The environment of one node: the peer messages that may arrive          *)
(***************************************************************************)
W(ptype, view, seq_num, signer_id, block_id, body) ==
    ParsedMessage(ptype, view, seq_num, signer_id, block_id, FALSE, SignedHdr(signer_id),
                  body)

Vote(ptype, view, seq_num, signer_id, block_id) ==
    PbftSignedVote(SignedHdr(signer_id),
                   PbftMessage(ptype, view, seq_num, signer_id, block_id))

B1Id == <<1, 0, 0>>
B2Id == <<1, 0, 1>>
C1Id == <<2, 0, 0>>

B1 == ClayerBlock(B1Id, 1, GenesisId, 0, {}, TRUE)
B2 == ClayerBlock(B2Id, 1, GenesisId, 0, {}, TRUE)

SealOf(view, seq_num, signer_id, block_id, voters) ==
    PbftSeal(view, seq_num, signer_id, block_id,
             {Vote(Commit, view, seq_num, v, block_id) : v \in voters})

\* A block at height 2 on top of B1 whose seal proves B1
C1(seal) == ClayerBlock(C1Id, 2, B1Id, 0, {seal}, TRUE)

\* Another block at height 2 on top of B1
D1Id == <<2, 0, 1>>

D1(seal) == ClayerBlock(D1Id, 2, B1Id, 0, {seal}, TRUE)

WBlock(view, signer_id, block) ==
    W(BlockNew, view, block.block_num, signer_id, block.block_id, {block})

WSeal(seal) == W(Seal, seal.view, seal.seq_num, seal.signer_id, seal.block_id,
                 seal.commit_votes)

\* Normal operation at (view 0, seq 1), with an equivocating primary, a
\* Prepare from the primary and messages of a peer outside the network
FamNormal ==
    {WBlock(0, 0, B1), WBlock(0, 0, B2)}
    \cup {W(PrePrepare, 0, 1, 0, b, {}) : b \in {B1Id, B2Id}}
    \cup {W(Prepare, 0, 1, p, B1Id, {}) : p \in {0, 2, 3, Stranger}}
    \cup {W(Commit, 0, 1, p, B1Id, {}) : p \in {0, 2, 3}}

\* The primary of view 0: it publishes B1 and collects the votes of its peers
FamPrimary ==
    {W(Prepare, 0, 1, p, <<1, 0, 0>>, {}) : p \in {1, 2, 3}}
    \cup {W(Commit, 0, 1, p, <<1, 0, 0>>, {}) : p \in {1, 2, 3}}
    \cup {W(SealRequest, 0, 1, 3, ZeroId, {})}

\* View changes to views 1 and 2, with ordinary traffic in between
FamViewChange ==
    {W(ViewChange, 1, 0, p, ZeroId, {}) : p \in {0, 2}}
    \cup {W(ViewChange, 2, 0, p, ZeroId, {}) : p \in {2, 3}}
    \cup {W(NewView, 2, 0, 2, ZeroId, {Vote(ViewChange, 2, 0, p, ZeroId) : p \in {0, 3}}),
          W(Prepare, 0, 1, 2, B1Id, {})}

\* Catch-up: a block at height 2 whose seal proves B1, a seal response,
\* after the node may have moved to view 1
FamCatchup ==
    {WBlock(0, 0, B1), WBlock(0, 0, C1(SealOf(0, 1, 0, B1Id, {2, 3}))),
     WSeal(SealOf(0, 1, 2, B1Id, {0, 3})),
     W(ViewChange, 1, 0, 0, ZeroId, {}), W(ViewChange, 1, 0, 2, ZeroId, {})}

\* A block at height 2 whose seal for B1 carries one vote only
FamBadSeal ==
    {WBlock(0, 0, B1), WBlock(0, 0, D1(SealOf(0, 1, 0, B1Id, {3}))),
     W(PrePrepare, 0, 1, 0, B1Id, {}), W(Prepare, 0, 1, 2, B1Id, {})}

\* PrePrepares and Prepares of a non-primary and for another view, next to
\* the proposal and the Prepares of view 0, one of them in two copies that
\* differ in the header signature
FamOffView ==
    {WBlock(0, 0, B1), W(PrePrepare, 0, 1, 0, B1Id, {}),
     W(PrePrepare, 0, 1, 2, B1Id, {}), W(PrePrepare, 1, 1, 0, B1Id, {}),
     W(Prepare, 1, 1, 2, B1Id, {}),
     W(Prepare, 0, 1, 2, B1Id, {}), W(Prepare, 0, 1, 3, B1Id, {}),
     [W(Prepare, 0, 1, 2, B1Id, {}) EXCEPT !.hdr.sig = 1]}

\* The scenarios: the validator under study and the traffic it may receive
Scenarios ==
    {[me |-> 0, universe |-> FamPrimary],
     [me |-> 1, universe |-> FamNormal],
     [me |-> 1, universe |-> FamViewChange],
     [me |-> 1, universe |-> FamCatchup],
     [me |-> 1, universe |-> FamBadSeal],
     [me |-> 1, universe |-> FamOffView]}

NoCall == [op |-> "init", n |-> NoPeer, msg |-> NoMsg, res |-> OkRes, sent |-> {},
           trace |-> <<>>]

\* One validator, every other peer played by the environment
Init ==
    /\ \E sc \in Scenarios :
          /\ node = [n \in {sc.me} |-> InitNode(n)]
          /\ env = [universe |-> {w \in sc.universe : w.signer_id # sc.me},
                    stages |-> <<>>, stage |-> 0, silent |-> FALSE]
    /\ net = {}
    /\ last = NoCall

Next ==
    \E n \in DOMAIN node :
       \/ PeerMessage(n)
       \/ BlockCommit(n)
       \/ TryPublish(n)
       \/ IdleTimeout(n)
       \/ CommitTimeout(n)
       \/ ViewChangeTimeout(n)

Spec == Init /\ [][Next]_vars

TypeOK ==
    \A n \in DOMAIN node :
       /\ node[n].view \in 0..MaxView
       /\ node[n].seq_num \in 1..(MaxSeq + 1)
       /\ node[n].res = OkRes

(***************************************************************************)
(* A network of four validators: 0, 1 and 2 run the engine, 3 is faulty.   *)
(* In flight are the envelopes the three have broadcast; the faulty one    *)
(* either stays silent or has its own votes in flight from the start and   *)
(* sends blocks whose seals it assembles from Commit votes seen on the     *)
(* wire.  The scheduler works in stages: in a stage it delivers along the  *)
(* routes of that stage, tuples <<type, view, signer, recipient>>, lets    *)
(* the commit timeout of the stage's timers expire, and moves on when      *)
(* nothing it may deliver is left.  What it never routes is lost.          *)
(***************************************************************************)
Engines == {0, 1, 2}
Faulty == Len(Members) - 1

Stage == env.stages[env.stage]

Routed(w, n) == <<w.ptype, w.view, w.signer_id, n>> \in Stage.routes

\* agent.push_received_cache followed by pop_event at the recipient
Deliver(n) ==
    /\ Idle(n)
    /\ \E x \in net :
          /\ n \in x.to
          /\ Routed(x.w, n)
          /\ \E o \in Orcs(node[n], x.w.ptype \in {Seal, BlockNew}) :
                Step("on_peer_message", n, x.w,
                     on_peer_message([node[n] EXCEPT !.orc = o], x.w.hdr.key,
                                     from_peer_message(x.w, node[n].id)),
                     (net \ {x}) \cup {[x EXCEPT !.to = @ \ {n}]})

\* The Commit votes that have travelled, as signed votes
SeenCommits ==
    {PbftSignedVote(x.w.hdr, get_pbft(x.w)) : x \in {y \in net : y.w.ptype = Commit}}

\* A block at the next height whose seal joins one vote seen on the wire with
\* a vote of the faulty validator and names the smallest other member as signer
SealedBlocks ==
    {ClayerBlock(<<v.msg.seq_num + 1, Faulty, 0>>, v.msg.seq_num + 1, v.msg.block_id, Faulty,
                 {PbftSeal(v.msg.view, v.msg.seq_num,
                           CHOOSE m \in Engines : m # v.msg.signer_id
                                                  /\ \A k \in Engines :
                                                        k # v.msg.signer_id => m <= k,
                           v.msg.block_id,
                           {v, Vote(Commit, v.msg.view, v.msg.seq_num, Faulty,
                                   v.msg.block_id)})},
                 TRUE) : v \in {c \in SeenCommits : c.msg.signer_id # Faulty}}

FaultySends(n) ==
    /\ Idle(n)
    /\ \E w \in {WBlock(0, Faulty, b) : b \in SealedBlocks} :
          /\ Routed(w, n)
          /\ \E o \in Orcs(node[n], TRUE) :
                Call("on_peer_message", n, w,
                     on_peer_message([node[n] EXCEPT !.orc = o], w.hdr.key,
                                     from_peer_message(w, node[n].id)))

TimerExpires(n) == n \in Stage.timers /\ CommitTimeout(n)

\* The scheduler turns to its next stage
Advance ==
    /\ env.stage < Len(env.stages)
    /\ \A x \in net : \A n \in x.to : ~Routed(x.w, n)
    /\ env' = [env EXCEPT !.stage = @ + 1]
    /\ UNCHANGED <<node, net, last>>

\* The block node 1 publishes at height 1 once it is the primary of view 1
B3Id == <<1, 1, 0>>

AllTypes ==
    {PrePrepare, Prepare, Commit, NewView, ViewChange, SealRequest, Seal, BlockNew,
     AnnounceBlock, NewValidator}

\* Validator 3 is silent; everything the three others send is delivered
QuietNetwork ==
    [universe |-> {},
     stages |-> <<[routes |-> {<<t, v, a, b>> : t \in AllTypes, v \in 0..MaxView,
                                                a \in Engines, b \in Engines},
                   timers |-> {}]>>,
     stage |-> 1,
     silent |-> TRUE]

\* Validator 3 is Byzantine and the scheduler slow: node 1 alone gets the
\* Prepares of view 0, node 0 times out, view 1 commits the block of node 1,
\* and node 2 is then handed a sealed successor of the block of view 0
SplitNetwork ==
    [universe |-> {W(Prepare, 0, 1, Faulty, B1Id, {}),
                   W(ViewChange, 1, 0, Faulty, ZeroId, {}),
                   W(Prepare, 1, 1, Faulty, B3Id, {}),
                   W(Commit, 1, 1, Faulty, B3Id, {})},
     stages |-> <<[routes |-> {<<BlockNew, 0, 0, 1>>, <<BlockNew, 0, 0, 2>>,
                               <<PrePrepare, 0, 0, 1>>, <<PrePrepare, 0, 0, 2>>},
                   timers |-> {}],
                  [routes |-> {<<Prepare, 0, 2, 1>>, <<Prepare, 0, Faulty, 1>>},
                   timers |-> {}],
                  [routes |-> {}, timers |-> {0}],
                  [routes |-> {<<ViewChange, 1, 0, 1>>, <<ViewChange, 1, Faulty, 1>>},
                   timers |-> {}],
                  [routes |-> {<<NewView, 1, 1, 0>>, <<NewView, 1, 1, 2>>},
                   timers |-> {}],
                  [routes |-> {<<BlockNew, 1, 1, 0>>, <<BlockNew, 1, 1, 2>>,
                               <<PrePrepare, 1, 1, 0>>, <<PrePrepare, 1, 1, 2>>},
                   timers |-> {}],
                  [routes |-> {<<Prepare, 1, 0, 1>>, <<Prepare, 1, 2, 1>>,
                               <<Prepare, 1, Faulty, 1>>, <<Prepare, 1, 2, 0>>,
                               <<Prepare, 1, Faulty, 0>>},
                   timers |-> {}],
                  [routes |-> {<<Commit, 1, 0, 1>>, <<Commit, 1, Faulty, 1>>},
                   timers |-> {}],
                  [routes |-> {<<BlockNew, 0, Faulty, 2>>}, timers |-> {}]>>,
     stage |-> 1,
     silent |-> FALSE]

InitNet ==
    /\ node = [n \in Engines |-> InitNode(n)]
    /\ env \in {QuietNetwork, SplitNetwork}
    /\ net = {[w |-> w, to |-> Engines] : w \in env.universe}
    /\ last = NoCall

NextNet ==
    \/ Advance
    \/ \E n \in DOMAIN node :
          \/ Deliver(n)
          \/ FaultySends(n)
          \/ BlockCommit(n)
          \/ TryPublish(n)
          \/ TimerExpires(n)

SpecNet == InitNet /\ [][NextNet]_vars

(***************************************************************************)
(* Seal verification on its own: a node is handed a seal of up to MaxVotes *)
(* votes taken from a pool of good and bad ones                            *)
(***************************************************************************)
MaxVotes == 4

Seven == <<0, 1, 2, 3, 4, 5, 6>>

\* What the node knows when it verifies: its validators and f as
\* update_membership left them and the members on chain at each height
SealNodes ==
    {InitNode(1),
     [InitNode(1) EXCEPT !.onchain = [@ EXCEPT ![0] = <<0, 1, 2>>]],
     [InitNode(1) EXCEPT !.onchain = [@ EXCEPT ![0] = <<>>]],
     [InitNode(1) EXCEPT !.validators = Seven, !.f = (Len(Seven) - 1) \div 3,
                         !.onchain = [n \in DOMAIN @ |-> Seven]]}

VotePool ==
    {Vote(Commit, 0, 1, p, B1Id) : p \in PeerIds}
       \cup {Vote(Commit, 0, 0, p, B1Id) : p \in {1, 2}}
       \cup {PbftSignedVote([SignedHdr(2) EXCEPT !.sig = 1],
                            PbftMessage(Commit, 0, 1, 2, B1Id)),
             Vote(Prepare, 0, 1, 2, B1Id),
             Vote(Commit, 1, 1, 2, B1Id),
             Vote(Commit, 0, 1, 2, B2Id),
             PbftSignedVote([SignedHdr(2) EXCEPT !.key = 3],
                            PbftMessage(Commit, 0, 1, 2, B1Id)),
             PbftSignedVote([SignedHdr(2) EXCEPT !.hash_ok = FALSE],
                            PbftMessage(Commit, 0, 1, 2, B1Id)),
             PbftSignedVote(SignedHdr(3), PbftMessage(Commit, 0, 1, 2, B1Id))}

SealPool ==
    {PbftSeal(v, n, signer, B1Id, votes) :
        v \in {0, 1}, n \in {0, 1}, signer \in {0, 3, Stranger},
        votes \in {vs \in SUBSET VotePool : Cardinality(vs) <= MaxVotes}}

InitSeal ==
    /\ node \in {[n \in {1} |-> c] : c \in SealNodes}
    /\ \E seal \in SealPool :
          env = [universe |-> {WSeal(seal)}, stages |-> <<>>, stage |-> 0, silent |-> FALSE]
    /\ net = {}
    /\ last = NoCall

\* The seal the node was handed goes through verify_consensus_seal, once
VerifySeal(n) ==
    /\ last.op = NoCall.op
    /\ \E w \in env.universe :
          last' = [op |-> "verify_consensus_seal", n |-> n, msg |-> get_seal(w),
                   res |-> verify_consensus_seal(node[n], get_seal(w), ZeroId),
                   sent |-> {}, trace |-> <<>>]
    /\ UNCHANGED <<node, net, env>>

NextSeal == \E n \in DOMAIN node : VerifySeal(n)

SpecSeal == InitSeal /\ [][NextSeal]_vars

(***************************************************************************)
(* A validator that restarts: the message log lives in memory, so          *)
(* new() and initialize() start from an empty log, while the votes the     *)
(* validator signed before are still with its peers                        *)
(***************************************************************************)
\* Normal operation at (view 0, seq 1) up to the Commit of the node, and a
\* peer that asks for the seal of the block
FamRestart ==
    {WBlock(0, 0, B1), W(PrePrepare, 0, 1, 0, B1Id, {}),
     W(Prepare, 0, 1, 2, B1Id, {}), W(Prepare, 0, 1, 3, B1Id, {}),
     W(SealRequest, 0, 1, 3, ZeroId, {})}

\* ClayerConsensusEngine::new and initialize() on the chain head, before the
\* node has committed its first block
Restart(n) ==
    /\ node[n].chain = <<>> /\ node[n].queued = <<>> /\ node[n].engine_commits = {}
    /\ node[n].messages # {}
    /\ node' = [node EXCEPT ![n] = [InitNode(n) EXCEPT !.built = node[n].built]]
    /\ last' = [op |-> "restart", n |-> n, msg |-> NoMsg, res |-> OkRes, sent |-> {},
                trace |-> <<>>]
    /\ UNCHANGED <<net, env>>

\* The seal validator 2 builds once it has committed: the Commit votes it
\* received from the node and from validator 3
PeerSeals ==
    {PbftSeal(v.msg.view, v.msg.seq_num, 2, v.msg.block_id,
              {v, Vote(Commit, v.msg.view, v.msg.seq_num, 3, v.msg.block_id)}) :
        v \in SeenCommits}

PeerSeal(n) ==
    /\ Idle(n)
    /\ \E seal \in PeerSeals :
       \E o \in Orcs(node[n], TRUE) :
          Call("on_peer_message", n, WSeal(seal),
               on_peer_message([node[n] EXCEPT !.orc = o], 2,
                               from_peer_message(WSeal(seal), node[n].id)))

InitRestart ==
    /\ node = [n \in {1} |-> InitNode(n)]
    /\ env = [universe |-> FamRestart, stages |-> <<>>, stage |-> 0, silent |-> FALSE]
    /\ net = {}
    /\ last = NoCall

NextRestart ==
    \E n \in DOMAIN node :
       \/ PeerMessage(n)
       \/ BlockCommit(n)
       \/ Restart(n)
       \/ PeerSeal(n)

SpecRestart == InitRestart /\ [][NextRestart]_vars

(***************************************************************************)
(* Properties                                                              *)
(***************************************************************************)
\* The fields of a node a rejected or ignored message must leave alone
Observed(s) ==
    <<s.messages, s.view, s.seq_num, s.phase, s.mode,
      s.idle_timeout, s.commit_timeout, s.view_change_timeout>>

PrePreparesOf(s) == {m \in s.messages : m.ptype = PrePrepare}

\* The step delivers peer message w to node n
Delivers(n) == last'.op = "on_peer_message" /\ last'.n = n

\* The PrePrepare of the step reaches handle_pre_prepare's check for a
\* PrePrepare logged at the same view and sequence number with another block
ConflictingPrePrepare(n) ==
    /\ Delivers(n)
    /\ last'.msg.ptype = PrePrepare
    /\ last'.msg.signer_id \in ValidatorSet(node[n])
    /\ is_validator(node[n])
    /\ ~IsViewChanging(node[n].mode)
    /\ last'.msg.signer_id = get_primary_id(node[n])
    /\ last'.msg.view = node[n].view
    /\ \E e \in PrePreparesOf(node[n]) :
          /\ e.view = last'.msg.view
          /\ e.seq_num = last'.msg.seq_num
          /\ e.block_id # last'.msg.block_id

OnePrePreparePerViewSeq ==
    \A n \in DOMAIN node :
       \A a, b \in PrePreparesOf(node[n]) :
          (a.view = b.view /\ a.seq_num = b.seq_num) => a.block_id = b.block_id

ConflictStartsViewChange ==
    \A n \in DOMAIN node :
       ConflictingPrePrepare(n) =>
          /\ last'.res = FaultyPrimary
          /\ PrePreparesOf(node'[n]) = PrePreparesOf(node[n])
          /\ \E x \in last'.sent :
                /\ x.w.ptype = ViewChange
                /\ x.w.view = node[n].view + 1
                /\ x.w.signer_id = n
          /\ \/ node'[n].mode = ViewChanging(node[n].view + 1)
             \/ node'[n].view = node[n].view + 1

\* C3: for every (view, seq) the log of a node holds PrePrepares for at most
\* one block_id; a PrePrepare that handle_pre_prepare finds to conflict with a
\* logged one is not appended, makes the node broadcast a ViewChange for
\* view + 1 and enter that view change, and returns FaultyPrimary.
C3_NoTwoPrePrepares == [](OnePrePreparePerViewSeq) /\ [][ConflictStartsViewChange]_vars

C3_Witness ==
    /\ last.op = "on_peer_message"
    /\ last.msg.ptype = PrePrepare
    /\ last.res = FaultyPrimary
    /\ \E n \in DOMAIN node : PrePreparesOf(node[n]) # {} /\ IsViewChanging(node[n].mode)

\* C4: seq_num is changed only by on_block_commit, and every on_block_commit
\* increases it by exactly 1; no other handler changes it.
C4_SeqNumOnlyByBlockCommit ==
    [][\A n \in DOMAIN node :
          /\ (last'.op = "on_block_commit" /\ last'.n = n)
                => node'[n].seq_num = node[n].seq_num + 1
          /\ node'[n].seq_num # node[n].seq_num
                => (last'.op = "on_block_commit" /\ last'.n = n)]_vars

\* a BlockCommit queued by catch-up has been delivered
C4_Witness ==
    /\ last.op = "on_block_commit"
    /\ ~last.msg.committing
    /\ \E n \in DOMAIN node : node[n].seq_num = 2 /\ node[n].chain = <<B1Id>>

CycleStep(from, to) ==
    \/ from = PrePreparing /\ to = Preparing
    \/ from = Preparing /\ to = Committing
    \/ from = Committing /\ IsFinishing(to)
    \/ IsFinishing(from) /\ to = PrePreparing

NewViewReset(e) == e[3] = "handle_new_view" /\ ~IsFinishing(e[1]) /\ e[2] = PrePreparing

CatchupSkip(e) == e[3] = "catchup" /\ ~IsFinishing(e[1]) /\ IsFinishing(e[2])

PhaseChanges == {last.trace[i] : i \in DOMAIN last.trace}

\* C5 as claimed: every change of phase follows the cycle PrePreparing ->
\* Preparing -> Committing -> Finishing -> PrePreparing, the only exception
\* being the reset to PrePreparing when a NewView is accepted outside Finishing.
C5_PhaseOrderOriginal ==
    \A e \in PhaseChanges : e[1] # e[2] => (CycleStep(e[1], e[2]) \/ NewViewReset(e))

\* C5 as amended: every change of phase follows the cycle, except that
\* accepting a NewView outside Finishing resets the phase to PrePreparing and
\* that catch-up moves a node that is not Finishing straight to Finishing.
C5_PhaseOrder ==
    \A e \in PhaseChanges :
       e[1] # e[2] => (CycleStep(e[1], e[2]) \/ NewViewReset(e) \/ CatchupSkip(e))

\* one handler call walked the block through Preparing, Committing, Finishing
C5_Witness ==
    /\ last.op = "on_peer_message"
    /\ \E e \in PhaseChanges : e[1] = Committing /\ e[2] = FinishingFalse
    /\ \E n \in DOMAIN node : node[n].phase = FinishingFalse

\* C6: no step makes the view of a node smaller.
C6_ViewMonotonic == [][\A n \in DOMAIN node : node'[n].view >= node[n].view]_vars

\* The message of the step comes from a signer outside the validator set
FromNonMember(n) == Delivers(n) /\ last'.msg.signer_id \notin ValidatorSet(node[n])

\* C9: on_peer_message returns InvalidMessage for every message whose signer
\* is not in the node's validator set, whatever its type, and leaves the log,
\* view, seq_num, phase, mode and timers as they were.
C9_MembershipGate ==
    [][\A n \in DOMAIN node :
          FromNonMember(n) =>
             /\ last'.res = InvalidMessage
             /\ Observed(node'[n]) = Observed(node[n])]_vars

C9_Witness ==
    /\ last.op = "on_peer_message"
    /\ last.msg.signer_id = Stranger
    /\ last.res = InvalidMessage
    /\ \E n \in DOMAIN node : node[n].messages # {}

\* The message of the step meets the view-change gate: a validator in
\* ViewChanging mode gets a member's message that is neither ViewChange nor
\* NewView
AtViewChangeGate(n) ==
    /\ Delivers(n)
    /\ last'.msg.signer_id \in ValidatorSet(node[n])
    /\ is_validator(node[n])
    /\ IsViewChanging(node[n].mode)
    /\ last'.msg.ptype \notin {ViewChange, NewView}

\* C10: while a validator is ViewChanging, a peer message other than
\* ViewChange and NewView returns Ok, leaves the log, view, seq_num, phase,
\* mode and timers as they were, and sends nothing.
C10_ViewChangeGate ==
    [][\A n \in DOMAIN node :
          AtViewChangeGate(n) =>
             /\ last'.res = OkRes
             /\ Observed(node'[n]) = Observed(node[n])
             /\ last'.sent = {}]_vars

C10_Witness ==
    /\ last.op = "on_peer_message"
    /\ last.msg.ptype = Commit
    /\ last.msg.signer_id \in {0, 2, 3}
    /\ last.res = OkRes
    /\ \E n \in DOMAIN node : IsViewChanging(node[n].mode) /\ node[n].messages # {}


(***************************************************************************)
(* One node and a stream of block announcements.  The block ids announced  *)
(* are introduced in the order AnnId(0), AnnId(1), ...; an id already      *)
(* introduced may be announced again at any time.                          *)
(***************************************************************************)
MaxAnnounces == 12

AnnId(k) == <<3, 0, k>>

\* pop_event() returned an AnnounceBlock of validator 0 or 2
Announce(n) ==
    /\ Idle(n)
    /\ Len(node[n].announced) < MaxAnnounces
    /\ \E k \in 0..Cardinality(RangeOf(node[n].announced)) :
       \E p \in {0, 2} :
          LET w == W(AnnounceBlock, 0, 1, p, AnnId(k), {})
          IN Call("on_peer_message", n, w,
                  on_peer_message(node[n], w.hdr.key, from_peer_message(w, node[n].id)))

\* A validator and a node that is not (yet) a member
InitAnnounce ==
    /\ \E me \in {1, Stranger} : node = [n \in {me} |-> InitNode(n)]
    /\ env = [universe |-> {}, stages |-> <<>>, stage |-> 0, silent |-> FALSE]
    /\ net = {}
    /\ last = NoCall

NextAnnounce ==
    \E n \in DOMAIN node :
       \/ Announce(n)
       \/ IdleTimeout(n)

SpecAnnounce == InitAnnounce /\ [][NextAnnounce]_vars

(***************************************************************************)
(* Four honest validators and the block of height 1.  Validator env.me     *)
(* takes the Prepare and Commit messages in flight to it in any order;     *)
(* everything else in flight is taken in one fixed order, at any time.     *)
(***************************************************************************)
\* Validator n takes envelope x whenever it likes
FreeOrder(x, n) == n = env.me /\ x.w.ptype \in {Prepare, Commit}

\* The envelopes in flight that are taken in the fixed order
EagerPending ==
    IF \E n \in DOMAIN node : node[n].queued # <<>> THEN {}
    ELSE {p \in net \X DOMAIN node : p[2] \in p[1].to /\ ~FreeOrder(p[1], p[2])}

\* agent.push_received_cache followed by pop_event at the recipient
HappyDeliver(n) ==
    /\ Idle(n)
    /\ \E x \in net :
          /\ n \in x.to
          /\ \/ FreeOrder(x, n)
             \/ EagerPending # {} /\ <<x, n>> = CHOOSE p \in EagerPending : TRUE
          /\ \E o \in Orcs(node[n], FALSE) :
                Step("on_peer_message", n, x.w,
                     on_peer_message([node[n] EXCEPT !.orc = o], x.w.hdr.key,
                                     from_peer_message(x.w, node[n].id)),
                     (net \ {x}) \cup {[x EXCEPT !.to = @ \ {n}]})

\* pop_event() returned the BlockCommit at the head of the queue; the block
\* store answers every lookup
HappyCommit(n) ==
    /\ node[n].queued # <<>>
    /\ \E o \in Orcs(node[n], FALSE) :
          LET ev == Head(node[n].queued)
          IN Call("on_block_commit", n, ev,
                  on_block_commit([node[n] EXCEPT !.queued = Tail(@), !.orc = o],
                                  ev.block_id, ev.timestamp, ev.committing))

\* The primary of view 0 proposes the block of height 1
HappyPublish(n) == node[n].seq_num = 1 /\ TryPublish(n)

InitHappy ==
    /\ node = [n \in RangeOf(Members) |-> InitNode(n)]
    /\ \E me \in {0, 1} :
          env = [universe |-> {}, stages |-> <<>>, stage |-> 0, silent |-> FALSE, me |-> me]
    /\ net = {}
    /\ last = NoCall

NextHappy ==
    \E n \in DOMAIN node :
       \/ HappyDeliver(n)
       \/ HappyCommit(n)
       \/ HappyPublish(n)

SpecHappy == InitHappy /\ [][NextHappy]_vars

(***************************************************************************)
(* One validator and a set of messages for (view 0, seq 1, B1), each       *)
(* delivered once, in any order.  The primary has its own proposal, and    *)
(* votes for it arrive only after it has made it.                          *)
(***************************************************************************)
\* The messages the peers of validator me may have for it
OrderPool(me) ==
    {w \in {WBlock(0, 0, B1), W(PrePrepare, 0, 1, 0, B1Id, {}),
            W(Prepare, 0, 1, 0, B1Id, {}), W(Prepare, 0, 1, 1, B1Id, {}),
            W(Prepare, 0, 1, 2, B1Id, {}), W(Prepare, 0, 1, 3, B1Id, {}),
            W(Commit, 0, 1, 0, B1Id, {}), W(Commit, 0, 1, 1, B1Id, {}),
            W(Commit, 0, 1, 2, B1Id, {})} : w.signer_id # me}

\* agent.push_received_cache followed by pop_event; the block store answers
\* every lookup
DeliverOnce(n) ==
    /\ Idle(n)
    /\ is_primary(node[n]) => has_block(node[n].blocks, B1Id)
    /\ \E x \in net :
          /\ n \in x.to
          /\ \E o \in Orcs(node[n], FALSE) :
                Step("on_peer_message", n, x.w,
                     on_peer_message([node[n] EXCEPT !.orc = o], x.w.hdr.key,
                                     from_peer_message(x.w, node[n].id)),
                     net \ {x})

InitOrder ==
    /\ \E me \in {0, 1} :
       \E set \in SUBSET OrderPool(me) :
          /\ node = [n \in {me} |-> InitNode(n)]
          /\ env = [universe |-> set, stages |-> <<>>, stage |-> 0, silent |-> FALSE]
          /\ net = {[w |-> w, to |-> {me}] : w \in set}
    /\ last = NoCall

NextOrder ==
    \E n \in DOMAIN node :
       \/ DeliverOnce(n)
       \/ HappyCommit(n)
       \/ HappyPublish(n)

SpecOrder == InitOrder /\ [][NextOrder]_vars

(***************************************************************************)
(* Primary silence: validator 0, the primary of view 0, sends nothing.     *)
(* The idle timeout of each of 1, 2 and 3 may expire while it is at view   *)
(* 0; what the three send one another is delivered in any order.           *)
(***************************************************************************)
Awake == RangeOf(Members) \ {0}

SilentPrimary ==
    [universe |-> {},
     stages |-> <<[routes |-> {<<t, v, a, b>> : t \in AllTypes, v \in 0..MaxView,
                                                a \in Awake, b \in Awake},
                   timers |-> {}]>>,
     stage |-> 1,
     silent |-> TRUE]

\* check_idle_timeout_expired at a validator still waiting in view 0
IdleTimeoutAtViewZero(n) == node[n].view = 0 /\ IdleTimeout(n)

InitSilence ==
    /\ node = [n \in Awake |-> InitNode(n)]
    /\ env = SilentPrimary
    /\ net = {}
    /\ last = NoCall

NextSilence ==
    \E n \in DOMAIN node :
       \/ Deliver(n)
       \/ IdleTimeoutAtViewZero(n)

SpecSilence == InitSilence /\ [][NextSilence]_vars

(***************************************************************************)
(* The messaging agent on its own: ClayerConsensusMessagingAgentInner.     *)
(* Every call takes the write lock, so each is one step.  The data of a    *)
(* peer message is the number of pushes made before it, which tells the    *)
(* order of the pushes apart.                                              *)
(***************************************************************************)
MaxPushes == 4

PeerMessageEvent(peer_id, data) == [kind |-> "PeerMessage", peer_id |-> peer_id, data |-> data]

PeerNetWorkEvent(peer_id, connect) ==
    [kind |-> "PeerNetWork", peer_id |-> peer_id, connect |-> connect]

\* ClayerConsensusMessagingAgentInner::new, with the count of the pushes made
\* and the peer messages pop_event has returned
NewAgent == [queued |-> <<>>, active_peers |-> {}, pushes |-> 0, delivered |-> <<>>]

\* push_received_cache that puts the message at the front of the queue
push_received_cache_front(a, peer_id, data) ==
    [a EXCEPT !.queued = <<PeerMessageEvent(peer_id, data)>> \o @]

push_received_cache(a, peer_id, data) ==
    [a EXCEPT !.queued = Append(@, PeerMessageEvent(peer_id, data))]

push_network_event(a, peer_id, connect) ==
    [a EXCEPT !.queued = Append(@, PeerNetWorkEvent(peer_id, connect)),
              !.active_peers = IF connect THEN @ \cup {peer_id} ELSE @ \ {peer_id}]

\* pop_front: the event returned is the head of the queue, None if it is empty
pop_event(a) ==
    IF a.queued = <<>> THEN a
    ELSE [a EXCEPT !.queued = Tail(@),
                   !.delivered = IF Head(a.queued).kind = "PeerMessage"
                                 THEN Append(@, Head(a.queued)) ELSE @]

AgentCall(op, n, msg, a) ==
    /\ node' = [node EXCEPT ![n] = a]
    /\ last' = [op |-> op, n |-> n, msg |-> msg, res |-> OkRes, sent |-> {}, trace |-> <<>>]
    /\ UNCHANGED <<net, env>>

Pushed(a) == [a EXCEPT !.pushes = @ + 1]

PushReceivedCache(n) ==
    /\ node[n].pushes < MaxPushes
    /\ \E peer_id \in {0, 2} :
          AgentCall("push_received_cache", n, PeerMessageEvent(peer_id, node[n].pushes),
                    Pushed(push_received_cache(node[n], peer_id, node[n].pushes)))

PushNetworkEvent(n) ==
    /\ node[n].pushes < MaxPushes
    /\ \E peer_id \in {0, 2} : \E connect \in BOOLEAN :
          AgentCall("push_network_event", n, PeerNetWorkEvent(peer_id, connect),
                    Pushed(push_network_event(node[n], peer_id, connect)))

PushBlockEvent(n) ==
    /\ node[n].pushes < MaxPushes
    /\ LET ev == [kind |-> "BlockCommit", event |-> BlockCommitEvent(B1Id, node[n].pushes, TRUE)]
       IN AgentCall("push_block_event", n, ev, Pushed(push_block_event(node[n], ev)))

PopEvent(n) ==
    AgentCall("pop_event", n,
              IF node[n].queued = <<>> THEN NoMsg ELSE Head(node[n].queued),
              pop_event(node[n]))

InitAgent ==
    /\ node = [n \in {1} |-> NewAgent]
    /\ env = [universe |-> {}, stages |-> <<>>, stage |-> 0, silent |-> FALSE]
    /\ net = {}
    /\ last = NoCall

NextAgent ==
    \E n \in DOMAIN node :
       \/ PushReceivedCache(n)
       \/ PushNetworkEvent(n)
       \/ PushBlockEvent(n)
       \/ PopEvent(n)

SpecAgent == InitAgent /\ [][NextAgent]_vars

(***************************************************************************)
(* The functions of the engine called on their own.  One validator goes    *)
(* through its traffic as before; at any moment one function is called     *)
(* with an argument of a small set, and the run ends there.                *)
(***************************************************************************)
\* Blocks and votes for height 1, a block at height 2 whose seal does not
\* verify, and a proposal naming that block for height 1
FamCalls ==
    {WBlock(0, 0, B1), WBlock(0, 0, D1(SealOf(0, 1, 0, B1Id, {3}))),
     W(PrePrepare, 0, 1, 0, B1Id, {}), W(PrePrepare, 0, 1, 0, D1Id, {}),
     W(Prepare, 0, 1, 2, B1Id, {}), W(Prepare, 0, 1, 3, B1Id, {}),
     W(Commit, 0, 1, 2, B1Id, {}), W(Commit, 0, 1, 3, B1Id, {})}

\* The proposal for height 1 with one Prepare, and the view changes of the
\* peers
FamCallsViews ==
    {WBlock(0, 0, B1), W(PrePrepare, 0, 1, 0, B1Id, {}), W(Prepare, 0, 1, 2, B1Id, {}),
     W(ViewChange, 1, 0, 0, ZeroId, {}), W(ViewChange, 1, 0, 2, ZeroId, {}),
     W(ViewChange, 1, 0, 3, ZeroId, {})}

\* The block ids a function is called with
CallIds == {B1Id, B2Id, D1Id}

CallOps == {"try_preparing", "start_view_change"}

\* The argument of a call on a block id
OnBlock(block_id) == [ptype |-> "None", block_id |-> block_id]

Running == last.op \notin CallOps

CallTryPreparing(n) ==
    /\ ~node[n].halted
    /\ \E b \in CallIds :
          Call("try_preparing", n, OnBlock(b), try_preparing(node[n], b))

\* The argument of a call on a view
OnView(view) == [ptype |-> "None", view |-> view]

CallStartViewChange(n) ==
    /\ ~node[n].halted
    /\ \E v \in 0..MaxView :
          Call("start_view_change", n, OnView(v), start_view_change(node[n], v))

InitCalls ==
    /\ \E me \in {0, 1}, universe \in {FamCalls, FamCallsViews} :
          /\ node = [n \in {me} |-> InitNode(n)]
          /\ env = [universe |-> {w \in universe : w.signer_id # me},
                    stages |-> <<>>, stage |-> 0, silent |-> FALSE]
    /\ net = {}
    /\ last = NoCall

NextCalls ==
    \E n \in DOMAIN node :
       \/ Running /\ PeerMessage(n)
       \/ Running /\ BlockCommit(n)
       \/ Running /\ TryPublish(n)
       \/ Running /\ IdleTimeout(n)
       \/ Running /\ CommitTimeout(n)
       \/ Running /\ ViewChangeTimeout(n)
       \/ Running /\ CallTryPreparing(n)
       \/ Running /\ CallStartViewChange(n)

SpecCalls == InitCalls /\ [][NextCalls]_vars

(***************************************************************************)
(* View changes at one validator: the ViewChange and NewView messages its  *)
(* peers may send, a Byzantine one among them, and its own timeouts.       *)
(***************************************************************************)
VC(view, signer_id) == Vote(ViewChange, view, 0, signer_id, ZeroId)

NV(view, signer_id, votes) == W(NewView, view, 0, signer_id, ZeroId, votes)

\* ViewChanges for views 1 and 2, validator 2 sending a second one for view 1
\* with another sequence number
ViewChangePool ==
    {W(ViewChange, 1, 0, p, ZeroId, {}) : p \in {0, 2, 3}}
    \cup {W(ViewChange, 1, 1, 2, ZeroId, {})}
    \cup {W(ViewChange, 2, 0, p, ZeroId, {}) : p \in {0, 3}}

\* NewViews for views 1 and 2: well formed, with too few votes, with a vote
\* of the signer, of a non-member, of the wrong type, for another view, with
\* a forged signature, with two votes of one validator, and sent by a
\* validator that is not the primary of the view
NewViewPool ==
    {NV(1, 1, {VC(1, 0), VC(1, 3)}),
     NV(1, 1, {VC(1, 0), VC(1, 2), VC(1, 3)}),
     NV(2, 2, {VC(2, 0), VC(2, 3)}),
     NV(1, 1, {VC(1, 0)}),
     NV(1, 1, {VC(1, 0), VC(1, 1)}),
     NV(1, 1, {VC(1, 0), VC(1, Stranger)}),
     NV(1, 1, {VC(1, 0), Vote(Commit, 1, 0, 3, ZeroId)}),
     NV(1, 1, {VC(1, 0), VC(2, 3)}),
     NV(1, 1, {VC(1, 0), VC(1, 2), [VC(1, 3) EXCEPT !.hdr.key = 0]}),
     NV(1, 1, {VC(1, 0), Vote(ViewChange, 1, 1, 0, ZeroId)}),
     NV(1, 3, {VC(1, 0), VC(1, 2)})}

\* The proposal of view 0, with which the validator leaves PrePreparing
ProposalPool == {WBlock(0, 0, B1), W(PrePrepare, 0, 1, 0, B1Id, {})}

InitViews ==
    /\ \E me \in {1, 2} :
          /\ node = [n \in {me} |-> InitNode(n)]
          /\ env = [universe |-> {w \in ViewChangePool \cup NewViewPool \cup ProposalPool :
                                       w.signer_id # me},
                    stages |-> <<>>, stage |-> 0, silent |-> FALSE]
    /\ net = {}
    /\ last = NoCall

NextViews ==
    \E n \in DOMAIN node :
       \/ PeerMessage(n)
       \/ IdleTimeout(n)
       \/ ViewChangeTimeout(n)

SpecViews == InitViews /\ [][NextViews]_vars

(***************************************************************************)
(* Blocks at one validator: the BlockNew messages its peers may relay,     *)
(* good and bad, on a chain of four heights that it commits by catching up *)
(***************************************************************************)
StoreTop == 3

\* A block at height 1 whose payload_id is zero, and a block on top of it
Z1Id == <<1, 0, 2>>

Z1 == ClayerBlock(Z1Id, 1, GenesisId, 0, {}, FALSE)

Y2Id == <<2, 0, 2>>

Y2 == ClayerBlock(Y2Id, 2, Z1Id, 0, {SealOf(0, 1, 0, Z1Id, {2, 3})}, TRUE)

\* A block whose parent B2 is never sent, and a block at height 3 on top of
\* the block B1 of height 1
OrphanId == <<2, 0, 3>>

Orphan == ClayerBlock(OrphanId, 2, B2Id, 0, {SealOf(0, 1, 0, B2Id, {2, 3})}, TRUE)

GapId == <<3, 0, 3>>

Gap == ClayerBlock(GapId, 3, B1Id, 0, {SealOf(0, 1, 0, B1Id, {2, 3})}, TRUE)

\* The chain on top of D1: heights 3 and 4, each block with the seal of its
\* parent
G3Id == <<3, 0, 0>>

G3 == ClayerBlock(G3Id, 3, D1Id, 0, {SealOf(0, 2, 0, D1Id, {2, 3})}, TRUE)

H4Id == <<4, 0, 0>>

H4 == ClayerBlock(H4Id, 4, G3Id, 0, {SealOf(0, 3, 0, G3Id, {2, 3})}, TRUE)

\* A block of height 3 without a seal, on top of C1, the block of height 2
\* whose seal has one vote
F3Id == <<3, 0, 1>>

F3 == ClayerBlock(F3Id, 3, C1Id, 0, {}, TRUE)

\* A block of height 1 that validator 2 built
W1Id == <<1, 2, 0>>

W1 == ClayerBlock(W1Id, 1, GenesisId, 2, {}, TRUE)

\* What is relayed to the validator: blocks that on_block_new is to reject
\* and blocks on top of them; the chain of four heights; the blocks whose
\* headers the block store holds; the votes to commit B1; a chain relayed to
\* the primary of view 0
FamRejected == {WBlock(0, 2, b) : b \in {B1, Z1, Y2, Orphan, Gap,
                                          C1(SealOf(0, 1, 0, B1Id, {3})), F3}}

FamChain == {WBlock(0, 2, b) : b \in {B1, D1(SealOf(0, 1, 0, B1Id, {2, 3})), G3, H4}}

\* B1 reaches the validator from the block store only
FamStored == {WBlock(0, 2, b) : b \in {D1(SealOf(0, 1, 0, B1Id, {2, 3})), G3}}

\* The votes with which the validator commits B1 itself, next to the blocks
\* above B1
FamCommitted ==
    {WBlock(0, 2, b) : b \in {B1, D1(SealOf(0, 1, 0, B1Id, {2, 3})), G3}}
       \cup {W(PrePrepare, 0, 1, 0, B1Id, {})}
       \cup {W(t, 0, 1, p, B1Id, {}) : t \in {Prepare, Commit}, p \in {2, 3}}

\* The same votes next to the block of height 2 and its proposal
FamProposed ==
    {WBlock(0, 2, b) : b \in {B1, D1(SealOf(0, 1, 0, B1Id, {2, 3}))}}
       \cup {W(PrePrepare, 0, 1, 0, B1Id, {}), W(PrePrepare, 0, 2, 0, D1Id, {})}
       \cup {W(t, 0, 1, p, B1Id, {}) : t \in {Prepare, Commit}, p \in {2, 3}}

FamRelayed == {WBlock(0, 2, b) : b \in {B1, Z1, W1, D1(SealOf(0, 1, 0, B1Id, {2, 3}))}}
                 \cup {W(PrePrepare, 0, 1, 0, B1Id, {})}

\* store is the number of the latest header of the block store
BlockScenarios ==
    {[me |-> 1, universe |-> FamRejected, store |-> 0],
     [me |-> 1, universe |-> FamChain, store |-> 0],
     [me |-> 1, universe |-> FamStored, store |-> StoreTop],
     [me |-> 1, universe |-> FamCommitted, store |-> 0],
     [me |-> 1, universe |-> FamProposed, store |-> 0],
     [me |-> 0, universe |-> FamRelayed, store |-> 0]}

InitBlocks ==
    /\ \E sc \in BlockScenarios :
          /\ node = [n \in {sc.me} |-> InitNode(n)]
          /\ env = [universe |-> {w \in sc.universe : w.signer_id # sc.me},
                    stages |-> <<>>, stage |-> 0, silent |-> FALSE, store |-> sc.store]
    /\ net = {}
    /\ last = NoCall

\* The sealed headers of the block store: those of the chain, up to a height
StoreChain == <<GenesisId, B1Id, D1Id, G3Id, H4Id>>

StoreHeaders(top) ==
    [h \in 1..top |-> SealedHeader(StoreChain[h + 1], h, StoreChain[h])]

\* pop_event() returned a PeerMessage; the block store may have no header
\* for the block of a seal
BlocksDeliver(n) ==
    /\ Idle(n)
    /\ \E w \in env.universe :
       \E o \in {x \in Orcs(node[n], w.ptype = BlockNew) : x.latest} :
          Call("on_peer_message", n, w,
               on_peer_message([node[n] EXCEPT !.orc = o], w.hdr.key,
                               from_peer_message(w, node[n].id)))

\* The engine loop called sync_seal and the minimum interval had passed
SyncSeal(n) ==
    /\ Idle(n)
    /\ \E top \in 1..env.store : \E latest \in 1..env.store :
          /\ top < Len(StoreChain)
          /\ Call("sync_seal", n, NoMsg, sync_seal(node[n], StoreHeaders(top), latest))

NextBlocks ==
    \E n \in DOMAIN node :
       \/ BlocksDeliver(n)
       \/ HappyCommit(n)
       \/ TryPublish(n)
       \/ SyncSeal(n)

SpecBlocks == InitBlocks /\ [][NextBlocks]_vars

(***************************************************************************)
(* Seal requests: a validator that commits B1 itself or catches up on it   *)
(***************************************************************************)
\* A validator that commits B1 on the votes of its peers while validator 3
\* asks for the seals of the heights 1 and 2, as on_block_commit does
FamRequests ==
    {WBlock(0, 0, B1), W(PrePrepare, 0, 1, 0, B1Id, {}), W(Commit, 0, 1, 0, B1Id, {})}
       \cup {W(t, 0, 1, p, B1Id, {}) : t \in {Prepare, Commit}, p \in {2, 3}}
       \cup {W(SealRequest, 0, s, 3, ZeroId, {}) : s \in {1, 2}}

\* A validator that has sent its Commit for B1 or not and catches up from the
\* seal in the block above B1 while validator 3 asks for the seal of height 1
FamRequestsBehind ==
    {WBlock(0, 0, b) : b \in {B1, D1(SealOf(0, 1, 0, B1Id, {1, 3}))}}
       \cup {W(PrePrepare, 0, 1, 0, B1Id, {})}
       \cup {W(Prepare, 0, 1, p, B1Id, {}) : p \in {2, 3}}
       \cup {W(SealRequest, 0, 1, 3, ZeroId, {})}

\* A validator that catches up on the heights 1 and 2 while validator 2 asks
\* for the seal of B1 and for that of a block nobody has, as sync_seal does
FamRequestsStored ==
    {WBlock(0, 0, b) : b \in {B1, D1(SealOf(0, 1, 0, B1Id, {2, 3})), G3}}
       \cup {W(SealRequest, 0, 1, 2, b, {}) : b \in {B1Id, B2Id}}

\* A validator that is sent seals for B1 before and after it has the block
\* and after it has moved on: the seal validator 2 built, one with a single
\* vote, one that carries the vote of its signer, a seal for a block the
\* validator never sees and one for a block it keeps unvalidated
FamSeals ==
    {WBlock(0, 0, b) : b \in {B1, Z1, D1(SealOf(0, 1, 0, B1Id, {2, 3}))}}
       \cup {WSeal(SealOf(0, 1, 2, B1Id, voters)) : voters \in {{0, 3}, {3}, {2, 3}}}
       \cup {WSeal(SealOf(0, 1, 2, b, {0, 3})) : b \in {B2Id, Z1Id}}

InitRequests ==
    /\ \E universe \in {FamRequests, FamRequestsBehind, FamRequestsStored, FamSeals} :
          /\ node = [n \in {1} |-> InitNode(n)]
          /\ env = [universe |-> universe, stages |-> <<>>, stage |-> 0, silent |-> FALSE]
    /\ net = {}
    /\ last = NoCall

\* handle_seal_response called on a node that is waiting in Finishing for
\* the BlockCommit it has queued
SealWhileFinishing(n) ==
    /\ ~node[n].halted
    /\ node[n].queued # <<>>
    /\ IsFinishing(node[n].phase)
    /\ \E w \in {x \in env.universe : x.ptype = Seal} :
          Call("handle_seal_response", n, w,
               handle_seal_response(node[n], from_peer_message(w, node[n].id)))

NextRequests ==
    \E n \in DOMAIN node :
       \/ PeerMessage(n)
       \/ BlockCommit(n)
       \/ SealWhileFinishing(n)

SpecRequests == InitRequests /\ [][NextRequests]_vars

(***************************************************************************)
(* Membership: the on-chain validator list changes with the committed      *)
(* block, and a node outside the list is made a validator                  *)
(***************************************************************************)
Outsider == Stranger

Five == <<0, 1, 2, 3, 4>>

\* What query_validators and assemble_peer_id make of the chain's answer for
\* a height: the list the node has, a longer list with another f, a list with
\* one more validator, one without the node, one too short to tolerate a
\* fault, and nothing when the answer is empty or has an odd number of halves
OnChainAnswers == {Members, Seven, Five, <<0, 2, 3, 4>>, <<0, 1, 2>>, <<>>}

\* A validator catches up on the heights 1 and 2
FamMembers == {WBlock(0, 0, b) : b \in {B1, D1(SealOf(0, 1, 0, B1Id, {2, 3})), G3}}

\* A validator commits B1 on the votes of its peers
FamMembersCommit ==
    {WBlock(0, 0, B1), W(PrePrepare, 0, 1, 0, B1Id, {})}
       \cup {W(t, 0, 1, p, B1Id, {}) : t \in {Prepare, Commit}, p \in {2, 3}}

NewValidatorNotice(signer_id, peerid) ==
    W(NewValidator, 0, 1, signer_id, ZeroId, {[peerid |-> peerid]})

\* A node outside the validator list: the notices of validator 0 for it and
\* for another node, a notice signed by a node that is no validator, the
\* seal of B1, and the traffic of the validators
FamOutsider ==
    {NewValidatorNotice(0, Outsider), NewValidatorNotice(0, 3),
     NewValidatorNotice(NoPeer, Outsider),
     WSeal(SealOf(0, 1, 2, B1Id, {0, 3})),
     WBlock(0, 0, B1), W(PrePrepare, 0, 1, 0, B1Id, {}),
     W(Prepare, 0, 1, 2, B1Id, {}), W(Commit, 0, 1, 2, B1Id, {}),
     W(ViewChange, 1, 0, 2, ZeroId, {}), W(SealRequest, 0, 1, 3, ZeroId, {}),
     W(NewView, 1, 0, 1, ZeroId, {Vote(ViewChange, 1, 0, p, ZeroId) : p \in {0, 2}}),
     W(AnnounceBlock, 0, 1, 2, B1Id, {})}

MemberScenarios ==
    {[me |-> 1, universe |-> FamMembers, store |-> 0],
     [me |-> 1, universe |-> FamMembersCommit, store |-> 0],
     [me |-> Outsider, universe |-> FamOutsider, store |-> 1]}

InitMembers ==
    /\ \E sc \in MemberScenarios : \E first \in OnChainAnswers, second \in {Members, Five} :
          /\ node = [n \in {sc.me} |->
                        [InitNode(n) EXCEPT !.onchain = [@ EXCEPT ![1] = first,
                                                                   ![2] = second]]]
          /\ env = [universe |-> sc.universe, stages |-> <<>>, stage |-> 0,
                    silent |-> FALSE, store |-> sc.store]
    /\ net = {}
    /\ last = NoCall

NextMembers ==
    \E n \in DOMAIN node :
       \/ BlocksDeliver(n)
       \/ HappyCommit(n)
       \/ SyncSeal(n)

SpecMembers == InitMembers /\ [][NextMembers]_vars

(***************************************************************************)
(* The votes of one validator over two heights: it votes for a block of    *)
(* height 2, the network commits another one, and peers connect            *)
(***************************************************************************)
\* The block of height 2 that the primary of view 2 published on top of B1,
\* with the seal of B1, and the block of height 3 on top of it, with the seal
\* the network built when it committed the former in view 2
V2Id == <<2, 2, 0>>

V2 == ClayerBlock(V2Id, 2, B1Id, 2, {SealOf(0, 1, 2, B1Id, {0, 3})}, TRUE)

V3Id == <<3, 2, 0>>

V3 == ClayerBlock(V3Id, 3, V2Id, 2, {SealOf(2, 2, 2, V2Id, {0, 3})}, TRUE)

\* The peers that connect: a validator and a node outside the list
ConnectingPeers == {2, Stranger}

\* The agent has handed the PeerNetWork event of a connected peer to
\* on_peer_connected
PeerConnected(n) ==
    /\ Idle(n)
    /\ \E p \in ConnectingPeers :
          Call("on_peer_connected", n, [ptype |-> "None", peer_id |-> p],
               on_peer_connected(node[n], p))

\* B1 and the proposal of view 0 for height 2 with the Prepares for it, and
\* the blocks the network went on with
FamVotes ==
    {WBlock(0, 0, B1), WBlock(0, 0, C1(SealOf(0, 1, 0, B1Id, {2, 3}))),
     WBlock(2, 2, V2), WBlock(2, 2, V3),
     W(PrePrepare, 0, 2, 0, C1Id, {}),
     W(Prepare, 0, 2, 2, C1Id, {}), W(Prepare, 0, 2, 3, C1Id, {})}

\* The proposal of view 0 for height 2 and a second PrePrepare of that view
\* for the other block of height 2
FamConflict ==
    {WBlock(0, 0, B1), WBlock(0, 0, C1(SealOf(0, 1, 0, B1Id, {2, 3}))), WBlock(2, 2, V2),
     W(PrePrepare, 0, 2, 0, C1Id, {}), W(PrePrepare, 0, 2, 0, V2Id, {}),
     W(Prepare, 0, 2, 2, C1Id, {})}

\* The traffic of height 1, a block of height 2 whose seal for B1 has one
\* vote, and the proposal of view 0 for that block
FamUnsealed ==
    {WBlock(0, 0, B1), W(PrePrepare, 0, 1, 0, B1Id, {})}
       \cup {W(t, 0, 1, p, B1Id, {}) : t \in {Prepare, Commit}, p \in {2, 3}}
       \cup {WBlock(0, 0, D1(SealOf(0, 1, 0, B1Id, {3}))), W(PrePrepare, 0, 2, 0, D1Id, {})}

InitVotes ==
    /\ \E universe \in {FamVotes, FamConflict, FamUnsealed} :
          /\ node = [n \in {1} |-> InitNode(n)]
          /\ env = [universe |-> universe, stages |-> <<>>, stage |-> 0, silent |-> FALSE]
    /\ net = {}
    /\ last = NoCall

\* pop_event() returned a PeerMessage; the block store answers every lookup
VotesDeliver(n) ==
    /\ Idle(n)
    /\ \E w \in env.universe :
       \E o \in Orcs(node[n], FALSE) :
          Call("on_peer_message", n, w,
               on_peer_message([node[n] EXCEPT !.orc = o], w.hdr.key,
                               from_peer_message(w, node[n].id)))

NextVotes ==
    \E n \in DOMAIN node :
       \/ VotesDeliver(n)
       \/ HappyCommit(n)
       \/ PeerConnected(n)

SpecVotes == InitVotes /\ [][NextVotes]_vars

(***************************************************************************)
(* The agent under the driver loop.  The network task puts the messages of *)
(* the peers at the back of the queue whatever the engine is doing, and    *)
(* one iteration of the loop pops the head and hands it to its handler,    *)
(* which may push a BlockCommit.  Next to it runs the agent on its own,    *)
(* where block events are pushed freely.                                   *)
(***************************************************************************)
MaxQueued == 2

\* The node is an engine with its agent, not an agent on its own
IsEngine(n) == "phase" \in DOMAIN node[n]

IsBlockCommit(e) == IF "kind" \in DOMAIN e THEN e.kind = "BlockCommit" ELSE TRUE

\* agent.push_received_cache, called by the network task
ReceivePeerMessage(n) ==
    /\ ~node[n].halted
    /\ Len(node[n].queued) < MaxQueued
    /\ \E w \in env.universe :
          AgentCall("push_received_cache", n, w,
                    push_received_cache(node[n], w.hdr.key, w))

\* agent.pop_event returned a PeerMessage
DrivePeerMessage(n) ==
    /\ ~node[n].halted
    /\ node[n].queued # <<>>
    /\ ~IsBlockCommit(Head(node[n].queued))
    /\ LET ev == Head(node[n].queued)
       IN \E o \in Orcs(node[n], ev.data.ptype \in {Seal, BlockNew}) :
             Call("on_peer_message", n, ev.data,
                  on_peer_message([node[n] EXCEPT !.queued = Tail(@), !.orc = o],
                                  ev.peer_id, from_peer_message(ev.data, node[n].id)))

\* agent.pop_event returned a BlockCommit
DriveBlockCommit(n) ==
    /\ node[n].queued # <<>>
    /\ IsBlockCommit(Head(node[n].queued))
    /\ BlockCommit(n)

\* B1 with the votes of validators 2 and 3, and the block above it with the
\* seal of B1
FamLoop ==
    {WBlock(0, 0, b) : b \in {B1, D1(SealOf(0, 1, 0, B1Id, {2, 3}))}}
       \cup {W(PrePrepare, 0, 1, 0, B1Id, {})}
       \cup {W(t, 0, 1, p, B1Id, {}) : t \in {Prepare, Commit}, p \in {2, 3}}

InitLoop ==
    \/ InitAgent
    \/ /\ node = [n \in {1} |-> InitNode(n)]
       /\ env = [universe |-> FamLoop, stages |-> <<>>, stage |-> 0, silent |-> FALSE]
       /\ net = {}
       /\ last = NoCall

NextLoop ==
    \E n \in DOMAIN node :
       \/ IsEngine(n) /\ ReceivePeerMessage(n)
       \/ IsEngine(n) /\ DrivePeerMessage(n)
       \/ IsEngine(n) /\ DriveBlockCommit(n)
       \/ ~IsEngine(n) /\ PushReceivedCache(n)
       \/ ~IsEngine(n) /\ PushNetworkEvent(n)
       \/ ~IsEngine(n) /\ PushBlockEvent(n)
       \/ ~IsEngine(n) /\ PopEvent(n)

SpecLoop == InitLoop /\ [][NextLoop]_vars

(***************************************************************************)
(* Agreement and progress in the network                                   *)
(***************************************************************************)
\* C1: Agreement.  Any two honest nodes that commit a block at the same
\* height, through the Commit quorum of handle_commit or through catch-up
\* from a seal, commit the same block_id, with at most f = 1 of the four
\* validators Byzantine.  chain[h] is the block with which on_block_commit
\* left height h.
C1_Agreement ==
    \A i \in DOMAIN node : \A j \in DOMAIN node :
       \A h \in DOMAIN node[i].chain \cap DOMAIN node[j].chain :
          node[i].chain[h] = node[j].chain[h]

\* Everything the responsive validators have sent one another has arrived
\* and been handled
AllDelivered ==
    /\ \A x \in net : x.to \cap Engines = {}
    /\ \A n \in Engines : node[n].queued = <<>> /\ ~node[n].halted

\* The block of the primary was valid everywhere: each responsive validator
\* holds the PrePrepare of view 0 and the Prepares of both responsive
\* non-primaries for it
ProposalAccepted ==
    \A n \in Engines :
       /\ node[n].view = 0 /\ node[n].mode = Normal
       /\ \E m \in node[n].messages :
             /\ m.ptype = PrePrepare /\ m.view = 0 /\ m.seq_num = 1
             /\ m.signer_id = 0 /\ m.block_id = B1Id
       /\ \A p \in Engines \ {0} :
             \E m \in node[n].messages :
                /\ m.ptype = Prepare /\ m.view = 0 /\ m.seq_num = 1
                /\ m.signer_id = p /\ m.block_id = B1Id

\* C2: Progress under f faults.  With four validators, an honest primary
\* that proposes a valid block, validator 3 silent and every message among
\* the three others delivered, each of the three has reached Committing and
\* committed that block in view 0.
C2_Progress ==
    (env.silent /\ ProposalAccepted /\ AllDelivered)
       => \A n \in Engines : B1Id \in node[n].engine_commits

(***************************************************************************)
(* Seals                                                                   *)
(***************************************************************************)
\* A Commit vote for exactly (view, seq_num, block_id) with a good signature
ValidCommitVote(vote, view, seq_num, block_id) ==
    /\ vote.msg.ptype = Commit
    /\ vote.msg.view = view /\ vote.msg.seq_num = seq_num /\ vote.msg.block_id = block_id
    /\ vote.hdr.signer = vote.msg.signer_id
    /\ vote.hdr.key = vote.hdr.signer
    /\ vote.hdr.hash_ok

SealSufficient(s, seal) ==
    LET voters == {v.msg.signer_id : v \in seal.commit_votes}
        N == Len(s.validators)
        f == (N - 1) \div 3
    IN /\ \A v \in seal.commit_votes :
             ValidCommitVote(v, seal.view, seal.seq_num, seal.block_id)
       /\ Cardinality(voters) >= 2 * f
       /\ seal.seq_num >= 1
       /\ (seal.seq_num - 1) \in DOMAIN s.onchain
       /\ seal.signer_id \in RangeOf(s.onchain[seal.seq_num - 1])
       /\ voters \subseteq RangeOf(s.onchain[seal.seq_num - 1])
       /\ seal.signer_id \notin voters

\* C7: Seal sufficiency.  verify_consensus_seal accepts a seal for
\* (v, n, block_id) if and only if its votes are validly signed Commit votes
\* for exactly that (v, n, block_id) from at least 2f distinct signers, with
\* f = floor((N-1)/3) for the N validators of the verifying node, the seal's
\* signer is a member of the validator set at n-1, every voter is a member of
\* that set, and the seal's signer is not among the voters.
C7_SealSufficiency ==
    last.op = "verify_consensus_seal"
       => ((last.res = OkRes) <=> SealSufficient(node[last.n], last.msg))

C7_Witness ==
    /\ last.op = "verify_consensus_seal"
    /\ last.res = OkRes
    /\ Cardinality(last.msg.commit_votes) = 3
    /\ Cardinality({v.msg.signer_id : v \in last.msg.commit_votes}) = 2

\* C8: every seal a node builds with build_seal, after a commit, for a seal
\* request or when publishing the next block, holds Commit votes of at least
\* 2f validators, all for one (block_id, view) at height seq_num - 1, and no
\* vote signed by the node itself, also after the node has taken votes from a
\* received seal during catch-up.
C8_BuiltSeals ==
    \A n \in DOMAIN node : \A b \in node[n].built :
       /\ Cardinality({v.msg.signer_id : v \in b.seal.commit_votes}) >= 2 * b.f
       /\ {v.msg.signer_id : v \in b.seal.commit_votes} \subseteq ValidatorSet(node[n])
       /\ \A v \in b.seal.commit_votes :
             /\ v.msg.ptype = Commit
             /\ v.msg.block_id = b.seal.block_id /\ v.msg.view = b.seal.view
             /\ v.msg.seq_num = b.seq_num - 1
             /\ v.msg.signer_id # n

(***************************************************************************)
(* Errors                                                                  *)
(***************************************************************************)
\* The log and the part of PbftState an error may not touch
LogAndState(s) == <<s.messages, s.blocks, s.ublocks, s.view, s.seq_num, s.phase, s.mode>>

\* C11: InvalidMessage leaves state untouched.  Whenever a handler returns
\* InvalidMessage, the node's log (messages, validated and unvalidated
\* blocks), view, seq_num, phase and mode are what they were before the call.
C11_InvalidMessageUntouched ==
    [][\A n \in DOMAIN node :
          (last'.n = n /\ last'.res = InvalidMessage)
             => LogAndState(node'[n]) = LogAndState(node[n])]_vars

\* The node has started the view change to the view after the one it was in
ViewChangeStarted(n) ==
    \/ /\ node'[n].mode = ViewChanging(node[n].view + 1)
       /\ \E x \in last'.sent : /\ x.w.ptype = ViewChange
                                /\ x.w.view = node[n].view + 1
                                /\ x.w.signer_id = n
    \/ node'[n].view = node[n].view + 1

\* C12: FaultyPrimary triggers a view change before the error is returned.
\* Whenever handle_pre_prepare or handle_prepare returns FaultyPrimary at view
\* v, the node has broadcast ViewChange for v + 1 and is in ViewChanging(v + 1),
\* or is at view v + 1 already, and the offending message is not in the log.
C12_FaultyPrimaryViewChange ==
    [][\A n \in DOMAIN node :
          (last'.n = n /\ last'.op = "on_peer_message" /\ last'.res = FaultyPrimary)
             => /\ last'.msg.ptype \in {PrePrepare, Prepare}
                /\ ViewChangeStarted(n)
                /\ \A m \in node'[n].messages \ node[n].messages :
                      ~SameMessage(m, last'.msg)]_vars

C12_Witness ==
    /\ last.op = "on_peer_message" /\ last.res = FaultyPrimary
    /\ last.msg.ptype = Prepare
    /\ \E n \in DOMAIN node : last.n = n /\ node[n].mode = ViewChanging(1)

\* The node hands AnnounceBlock messages of member msg_signer to the handler
AcceptsAnnounce(s, msg_signer) ==
    /\ msg_signer \in ValidatorSet(s)
    /\ ~is_validator(s) \/ ~IsViewChanging(s.mode)

\* The block ids announced upstream after the latest announcement of b
AnnouncedSince(announced, b) ==
    LET at == CHOOSE i \in DOMAIN announced :
                 announced[i] = b /\ \A j \in DOMAIN announced : j > i => announced[j] # b
    IN {announced[j] : j \in (at + 1)..Len(announced)}

\* The announcements of b among the envelopes
AnnouncementsOf(sent, b) == {x \in sent : x.w.ptype = AnnounceBlock /\ x.w.block_id = b}

\* C13: idempotent announce.  The first AnnounceBlock(b) a node accepts makes
\* one upstream announce_block call and one re-broadcast; a later delivery of
\* AnnounceBlock(b), with fewer than 10 other block ids announced in between,
\* makes no upstream call and no broadcast: the two deliveries together
\* produce exactly one of each.
C13_IdempotentAnnounce ==
    [][\A n \in DOMAIN node :
          (/\ last'.n = n /\ last'.op = "on_peer_message"
           /\ last'.msg.ptype = AnnounceBlock
           /\ AcceptsAnnounce(node[n], last'.msg.signer_id))
             => LET b == last'.msg.block_id
                    before == node[n].announced
                IN /\ b \notin RangeOf(before)
                        => /\ node'[n].announced = Append(before, b)
                           /\ Cardinality(AnnouncementsOf(last'.sent, b)) = 1
                           /\ last'.sent = AnnouncementsOf(last'.sent, b)
                   /\ (/\ b \in RangeOf(before)
                       /\ Cardinality(AnnouncedSince(before, b)) < AnnounceCapacity)
                        => /\ node'[n].announced = before
                           /\ last'.sent = {}]_vars

\* The second delivery of an announcement, with nine other ids in between
C13_Witness ==
    /\ last.op = "on_peer_message" /\ last.msg.ptype = AnnounceBlock
    /\ last.sent = {}
    /\ \E n \in DOMAIN node :
          /\ last.n = n
          /\ AcceptsAnnounce(node[n], last.msg.signer_id)
          /\ last.msg.block_id \in RangeOf(node[n].announced)
          /\ Cardinality(AnnouncedSince(node[n].announced, last.msg.block_id))
                = AnnounceCapacity - 1

\* The seals validator n has built for block b
SealsBuilt(n, b) == {x.seal : x \in {y \in node[n].built : y.seal.block_id = b}}

\* Validator n emits a BlockCommit event in this step
EmitsBlockCommit(n) == Len(node'[n].queued) > Len(node[n].queued)

\* Validator n emits the BlockCommit for B1, and has not done so before
FirstBlockCommit(n) ==
    /\ node'[n].queued = <<BlockCommitEvent(B1Id, node[n].seq_num, TRUE)>>
    /\ B1Id \notin node[n].engine_commits
    /\ node[n].chain = <<>>

\* The proposal is out and nothing is left to deliver or to commit
HappyQuiet ==
    /\ has_block(node[0].blocks, B1Id)
    /\ \A x \in net : x.to \cap DOMAIN node = {}
    /\ \A n \in DOMAIN node : node[n].queued = <<>>

\* The votes of the seal are Commit votes for B1 of other validators than n
ForeignCommitVotes(n, seal) ==
    \A v \in seal.commit_votes :
       /\ v.msg.ptype = Commit /\ v.msg.block_id = B1Id
       /\ v.msg.signer_id \in RangeOf(Members) \ {n}

\* The happy path as stated: every seal built for B1 holds exactly 2 votes
C14_HappyPathOriginal ==
    \A n \in DOMAIN node :
       \A seal \in SealsBuilt(n, B1Id) :
          /\ Cardinality(seal.commit_votes) = 2
          /\ ForeignCommitVotes(n, seal)

\* C14: happy path, N = 4 and f = 1, all four validators honest.  Each
\* validator emits the BlockCommit event for B1 with committing = true exactly
\* once (never a second time, and once everything is delivered it has
\* committed B1), for every delivery order of the Prepare and Commit
\* messages, and the seal it then builds for B1 holds 2 or 3 Commit votes of
\* other validators, none its own.
C14_HappyPath ==
    /\ [][\A n \in DOMAIN node : EmitsBlockCommit(n) => FirstBlockCommit(n)]_vars
    /\ [](HappyQuiet => \A n \in DOMAIN node : node[n].chain = <<B1Id>>)
    /\ [](\A n \in DOMAIN node :
             /\ node[n].chain # <<>> => SealsBuilt(n, B1Id) # {}
             /\ \A seal \in SealsBuilt(n, B1Id) :
                   /\ Cardinality(seal.commit_votes) \in {2 * node[n].f, 2 * node[n].f + 1}
                   /\ ForeignCommitVotes(n, seal))

\* All four have committed B1 and one of them sealed it with three votes
C14_Witness ==
    /\ HappyQuiet
    /\ \A n \in DOMAIN node : node[n].chain = <<B1Id>>
    /\ \E seal \in SealsBuilt(env.me, B1Id) : Cardinality(seal.commit_votes) = 3

\* The set of messages holds what the log of validator n needs to commit B1:
\* the proposal, more than 2f Prepares and more than 2f Commits, its own
\* included (the primary sends no Prepare)
EnoughFor(n, set) ==
    LET votes(t) == {w \in set : w.ptype = t /\ w.signer_id # n}
        primary == get_primary_id(InitNode(n))
        f == InitNode(n).f
    IN /\ n # primary => \E w \in set : w.ptype = BlockNew
       /\ n # primary => \E w \in set : w.ptype = PrePrepare /\ w.signer_id = primary
       /\ Cardinality({w \in votes(Prepare) : w.signer_id # primary})
             + (IF n = primary THEN 0 ELSE 1) > 2 * f
       /\ Cardinality(votes(Commit)) + 1 > 2 * f

\* Every message of the set has been delivered and handled
OrderQuiet(n) ==
    /\ \A x \in net : n \notin x.to
    /\ node[n].queued = <<>>
    /\ get_primary_id(InitNode(n)) = n => has_block(node[n].blocks, B1Id)

FromPrimary(set, t) == {w \in set : w.ptype = t /\ w.signer_id = 0}

\* Reordering tolerance as stated: a set that holds what the commit needs
\* leads to the commit in whatever order it is delivered
C15_ReorderingOriginal ==
    \A n \in DOMAIN node :
       (OrderQuiet(n) /\ EnoughFor(n, env.universe)) => node[n].chain = <<B1Id>>

\* C15: reordering tolerance.  For a set of BlockNew, PrePrepare, Prepare and
\* Commit messages for one (view, seq, block_id) with no Prepare signed by the
\* primary, whether the node commits the block depends on the set only: it
\* commits in some delivery order only if the set holds the proposal and the
\* two quorums, and then it has committed once every message is delivered, in
\* every order.
C15_Reordering ==
    \A n \in DOMAIN node :
       /\ node[n].chain # <<>> => node[n].chain = <<B1Id>> /\ EnoughFor(n, env.universe)
       /\ (/\ OrderQuiet(n)
           /\ EnoughFor(n, env.universe)
           /\ FromPrimary(env.universe, Prepare) = {})
             => node[n].chain = <<B1Id>>

\* The votes arrived before the proposal: the node commits in the call that
\* hands it the block
C15_Witness ==
    /\ last.op = "on_peer_message" /\ last.msg.ptype = BlockNew
    /\ FromPrimary(env.universe, Prepare) = {}
    /\ \E n \in DOMAIN node :
          /\ last.n = n
          /\ node[n].queued # <<>>
          /\ Head(node[n].queued).block_id = B1Id

\* Validator n has broadcast a message of type t for view v
HasBroadcast(n, t, v) ==
    \E x \in net : x.w.ptype = t /\ x.w.view = v /\ x.w.signer_id = n

\* Each of the three has started the change to view 1 and everything they
\* have sent one another has arrived
AllStartedAndDelivered ==
    /\ \A n \in DOMAIN node : HasBroadcast(n, ViewChange, 1)
    /\ \A x \in net : x.to \cap DOMAIN node = {}

\* C16: view-change liveness under primary silence, N = 4, f = 1.  Once the
\* three other validators have each started a view change to view 1 and all
\* messages among them are delivered, validator 1 has broadcast a NewView for
\* view 1 and each of the three is in mode Normal at view 1 with validator 1
\* as primary.
C16_ViewChangeCompletes ==
    AllStartedAndDelivered
       => /\ HasBroadcast(1, NewView, 1)
          /\ \A n \in DOMAIN node :
                /\ node[n].view = 1
                /\ node[n].mode = Normal
                /\ get_primary_id(node[n]) = 1

C16_Witness ==
    /\ AllStartedAndDelivered
    /\ DOMAIN node = Awake
    /\ \A n \in DOMAIN node : node[n].view = 1 /\ node[n].mode = Normal

\* C17: per-peer delivery order.  The peer messages pop_event returns come in
\* the order in which push_received_cache was handed them, for any
\* interleaving of pushes and pops: of two peer messages, and so of two
\* messages of one peer, the one pushed first is returned first.
C17_PeerOrder ==
    \A n \in DOMAIN node :
       \A i \in DOMAIN node[n].delivered : \A j \in DOMAIN node[n].delivered :
          i < j => node[n].delivered[i].data < node[n].delivered[j].data

\* Two messages of one peer have been returned, a block event having been
\* pushed in front of the second
C17_Witness ==
    /\ last.op = "pop_event"
    /\ \E n \in DOMAIN node :
          /\ Len(node[n].delivered) = 2
          /\ node[n].delivered[1].peer_id = node[n].delivered[2].peer_id
          /\ node[n].delivered[2].data = node[n].delivered[1].data + 2

\* The capacity the queue is to stay within; the pushes made number MaxPushes
\* at most
Capacity == MaxPushes - 1

\* C18: no unbounded queues.  The number of events in the inbound queue of the
\* messaging agent never exceeds a fixed capacity, for any sequence of
\* push_received_cache, push_network_event, push_block_event and pop_event
\* calls.
C18_BoundedQueue ==
    \A n \in DOMAIN node : Len(node[n].queued) <= Capacity

\* The PrePrepare of the step reaches handle_pre_prepare: a validator in
\* Normal mode gets it from a member
AtHandlePrePrepare(n) ==
    /\ Delivers(n)
    /\ last'.msg.ptype = PrePrepare
    /\ last'.msg.signer_id \in ValidatorSet(node[n])
    /\ is_validator(node[n])
    /\ ~IsViewChanging(node[n].mode)

\* The step changes nothing at node n and sends nothing
NoChange(n) == node'[n] = node[n] /\ last'.sent = {}

\* C19: PrePrepare acceptance.  A PrePrepare is appended to the log only if
\* its signer is the primary of the node's current view and its view equals
\* state.view; a PrePrepare from a non-primary is ignored (Ok, no change) and
\* one of the primary for another view returns InvalidMessage with no change.
C19_PrePrepareAcceptance ==
    [][\A n \in DOMAIN node :
          /\ \A m \in PrePreparesOf(node'[n]) \ PrePreparesOf(node[n]) :
                m.signer_id = get_primary_id(node[n]) /\ m.view = node[n].view
          /\ (AtHandlePrePrepare(n) /\ last'.msg.signer_id # get_primary_id(node[n]))
                => last'.res = OkRes /\ NoChange(n)
          /\ (/\ AtHandlePrePrepare(n)
              /\ last'.msg.signer_id = get_primary_id(node[n])
              /\ last'.msg.view # node[n].view)
                => last'.res = InvalidMessage /\ NoChange(n)]_vars

\* A PrePrepare of the primary for another view has been turned down by a
\* node that holds the PrePrepare of its own view
C19_Witness ==
    /\ last.op = "on_peer_message" /\ last.msg.ptype = PrePrepare
    /\ last.res = InvalidMessage
    /\ \E n \in DOMAIN node :
          /\ last.n = n
          /\ last.msg.signer_id = get_primary_id(node[n])
          /\ last.msg.view # node[n].view
          /\ PrePreparesOf(node[n]) # {}

\* Node n moves from Preparing to Committing in this step
EntersCommitting(n) ==
    /\ last'.n = n
    /\ \E i \in DOMAIN last'.trace :
          last'.trace[i][1] = Preparing /\ last'.trace[i][2] = Committing

\* The Commit messages node n broadcasts in this step
OwnCommits(n) == {x.w : x \in {y \in last'.sent : y.w.ptype = Commit /\ y.w.signer_id = n}}

\* The signers of the Prepares for (view, seq_num, block_id) in the log
PrepareSigners(messages, view, seq_num, block_id) ==
    {m.signer_id : m \in get_messages_of_type_seq_view_block(messages, Prepare, seq_num,
                                                             view, block_id)}

\* C20: Prepare quorum.  A node moves from Preparing to Committing, and
\* broadcasts its Commit, only for its current view and seq_num and a block
\* whose PrePrepare for that view and seq_num is in the log together with
\* Prepares for it of at least 2f + 1 distinct signers; a Prepare is added to
\* the log only if its view is state.view and its signer is not the primary.
C20_PrepareQuorum ==
    [][\A n \in DOMAIN node :
          /\ (last'.n = n /\ OwnCommits(n) # {}) => EntersCommitting(n)
          /\ EntersCommitting(n)
                => /\ OwnCommits(n) # {}
                   /\ \A c \in OwnCommits(n) :
                         /\ c.seq_num = node[n].seq_num /\ c.view = node[n].view
                         /\ has_pre_prepare(node'[n].messages, c.seq_num, c.view, c.block_id)
                         /\ Cardinality(PrepareSigners(node'[n].messages, c.view, c.seq_num,
                                                       c.block_id)) >= 2 * node[n].f + 1
          /\ \A m \in node'[n].messages \ node[n].messages :
                m.ptype = Prepare
                   => m.view = node[n].view /\ m.signer_id # get_primary_id(node[n])]_vars

\* The node has entered Committing on the Prepares of three signers, the log
\* holding one of the two copies of the Prepare of validator 2
C20_Witness ==
    /\ last.op = "on_peer_message"
    /\ \E i \in DOMAIN last.trace :
          last.trace[i][1] = Preparing /\ last.trace[i][2] = Committing
    /\ \E n \in DOMAIN node :
          /\ last.n = n
          /\ PrepareSigners(node[n].messages, 0, 1, B1Id) = {n, 2, 3}
          /\ \E w \in env.universe :
                /\ w.ptype = Prepare /\ w.hdr.sig # 0
                /\ \E m \in node[n].messages : SameMessage(m, w) /\ m.hdr # w.hdr

(***************************************************************************)
(* The handlers one by one                                                 *)
(***************************************************************************)
\* The blocks whose BlockCommit event with committing = true node n queues in
\* this step
CommittedNow(n) ==
    {e.block_id : e \in {x \in RangeOf(node'[n].queued) \ RangeOf(node[n].queued) :
                            x.committing}}

\* Node n moves from Committing to Finishing(false) in this step
EntersFinishing(n) ==
    /\ last'.n = n
    /\ \E i \in DOMAIN last'.trace :
          last'.trace[i][1] = Committing /\ last'.trace[i][2] = FinishingFalse

\* The signers of the Commits for (view, seq_num, block_id) in the log
CommitSigners(messages, view, seq_num, block_id) ==
    {m.signer_id : m \in get_messages_of_type_seq_view_block(messages, Commit, seq_num,
                                                             view, block_id)}

\* C21: Commit quorum.  A node queues BlockCommit(block_id, ts, true) only in
\* a step that takes it from Committing to Finishing(false), hands block_id to
\* the execution engine, stops the commit timer and broadcasts AnnounceBlock
\* for block_id, and only with the PrePrepare for (state.view, state.seq_num,
\* block_id) and Commits for it of at least 2f + 1 distinct signers in the log;
\* it leaves Committing for Finishing(false) in no other way.
C21_CommitQuorum ==
    [][\A n \in DOMAIN node :
          /\ \A b \in CommittedNow(n) :
                /\ EntersFinishing(n)
                /\ node'[n].phase = FinishingFalse
                /\ b \in node'[n].engine_commits
                /\ ~node'[n].commit_timeout
                /\ \E x \in last'.sent : /\ x.w.ptype = AnnounceBlock
                                         /\ x.w.block_id = b
                                         /\ x.w.signer_id = n
                                         /\ x.w.seq_num = node'[n].seq_num
                /\ has_pre_prepare(node'[n].messages, node'[n].seq_num, node'[n].view, b)
                /\ Cardinality(CommitSigners(node'[n].messages, node'[n].view,
                                             node'[n].seq_num, b)) >= 2 * node'[n].f + 1
          /\ EntersFinishing(n) => CommittedNow(n) # {}]_vars

\* The node has committed B1 on the Commits of exactly three signers, its own
\* among them
C21_Witness ==
    /\ last.op = "on_peer_message" /\ last.msg.ptype = Commit
    /\ \E n \in DOMAIN node :
          /\ last.n = n
          /\ node[n].phase = FinishingFalse
          /\ B1Id \in node[n].engine_commits
          /\ \E i \in DOMAIN node[n].queued :
                node[n].queued[i].block_id = B1Id /\ node[n].queued[i].committing
          /\ Cardinality(CommitSigners(node[n].messages, 0, 1, B1Id)) = 3
          /\ n \in CommitSigners(node[n].messages, 0, 1, B1Id)

\* The step is the call of function op at node n
Calls(op, n) == last'.op = op /\ last'.n = n

\* The precondition of try_preparing for block_id in state s
CanPrepare(s, block_id) ==
    /\ has_block(s.blocks, block_id)
    /\ s.phase = PrePreparing
    /\ has_pre_prepare(s.messages, s.seq_num, s.view, block_id)
    /\ \A b \in s.blocks : b.block_id = block_id => b.block_num = s.seq_num

\* The Prepares node n broadcasts in this step
OwnPrepares(n) == {x.w : x \in {y \in last'.sent : y.w.ptype = Prepare /\ y.w.signer_id = n}}

\* What the step sends after the block and the proposal that lead to the call
\* of try_preparing
SentByCall == {x \in last'.sent : x.w.ptype \notin {BlockNew, PrePrepare}}

\* The step ends with try_preparing(mid, block_id) at node n and shows what
\* the claim says of it
TryPreparingDone(mid, block_id, n) ==
    IF CanPrepare(mid, block_id)
    THEN /\ last'.res = OkRes
         /\ last'.trace # <<>>
         /\ last'.trace[1] = <<PrePreparing, Preparing, "switch_phase">>
         /\ ~node'[n].idle_timeout
         /\ node'[n].commit_timeout \/ node'[n].phase = FinishingFalse
         /\ IF is_primary(mid)
            THEN /\ SentByCall = {}
                 /\ node'[n] = [mid EXCEPT !.phase = Preparing,
                                           !.idle_timeout = FALSE,
                                           !.commit_timeout = TRUE]
            ELSE /\ OwnPrepares(n) =
                       {Wire(from_pbft_message(
                                 PbftMessage(Prepare, mid.view, mid.seq_num, n, block_id)), n)}
                 /\ \A x \in last'.sent : x.w.ptype = Prepare
                                             => x.to = ValidatorSet(mid) \ {n}
    ELSE last'.res = OkRes /\ node'[n] = mid /\ SentByCall = {}

\* The block a BlockNew message carries
BlockOf(w) == CHOOSE b \in w.body : TRUE

\* The parent on_block_new finds for the block: a validated block first
ParentsOf(s, block) ==
    IF has_block(s.blocks, block.previous_id)
    THEN {b \in s.blocks : b.block_id = block.previous_id}
    ELSE {b \in s.ublocks : b.block_id = block.previous_id}

\* The step delivers a PrePrepare that handle_pre_prepare logs: node n then
\* calls try_preparing
LogsPrePrepare(n) ==
    /\ AtHandlePrePrepare(n)
    /\ last'.msg.signer_id = get_primary_id(node[n])
    /\ last'.msg.view = node[n].view
    /\ \A m \in PrePreparesOf(node[n]) :
          (m.seq_num = last'.msg.seq_num /\ m.view = last'.msg.view)
             => m.block_id = last'.msg.block_id

\* The step delivers a block for the current height that on_block_new and
\* on_block_valid pass on: node n, not its proposer, then calls try_preparing
ValidatesBlock(n) ==
    /\ Delivers(n)
    /\ last'.msg.ptype = BlockNew
    /\ last'.msg.signer_id \in ValidatorSet(node[n])
    /\ is_validator(node[n])
    /\ ~IsViewChanging(node[n].mode)
    /\ LET block == BlockOf(last'.msg)
       IN /\ block.block_num = node[n].seq_num
          /\ block.block_num < 2
          /\ ParentsOf(node[n], block) # {}
          /\ \A p \in ParentsOf(node[n], block) : p.block_num = block.block_num - 1
          /\ block.payload_ok
          /\ ~(block.signer_id = n /\ is_primary(node[n]))

\* The step is try_publish at height 1 in Normal mode: the primary gets its
\* own block and its own PrePrepare and then calls try_preparing
PublishesFirst(n) ==
    /\ Calls("try_publish", n)
    /\ node[n].seq_num <= 1
    /\ is_primary(node[n]) /\ node[n].phase = PrePreparing
    /\ ~IsViewChanging(node[n].mode)
    /\ \A m \in PrePreparesOf(node[n]) :
          ~(m.seq_num = node[n].seq_num /\ m.view = node[n].view)

\* C22: try_preparing.  Called for block_id with the block validated in the
\* log, phase PrePreparing, a PrePrepare at (state.seq_num, state.view,
\* block_id) and block_num = state.seq_num, it takes the node from PrePreparing
\* to Preparing, stops the idle timer, starts the commit timer and broadcasts a
\* Prepare for (view, seq_num, block_id) if and only if the node is not the
\* primary; the commit timer is running afterwards unless the node's own
\* Prepare and Commit completed the quorums in the same call.  Called with any
\* of the four conditions false it returns Ok, changes nothing and sends
\* nothing.  This is so where handle_pre_prepare, try_handling_block and
\* try_publish call it and when it is called on its own.
C22_TryPreparing ==
    [][\A n \in DOMAIN node :
          /\ Calls("try_preparing", n)
                => TryPreparingDone(node[n], last'.msg.block_id, n)
          /\ LogsPrePrepare(n)
                => TryPreparingDone(
                       [node[n] EXCEPT !.messages =
                                           add_message(@, from_peer_message(last'.msg, n))],
                       last'.msg.block_id, n)
          /\ ValidatesBlock(n)
                => TryPreparingDone(
                       [node[n] EXCEPT
                           !.blocks = insert_block(@, BlockOf(last'.msg)),
                           !.ublocks = {b \in @ : b.block_id # last'.msg.block_id}],
                       last'.msg.block_id, n)
          /\ PublishesFirst(n)
                => TryPreparingDone(
                       [node[n] EXCEPT
                           !.blocks = insert_block(@, FinalizedBlock(node[n], {})),
                           !.messages =
                               add_message(@, from_pbft_message(
                                   PbftMessage(PrePrepare, node[n].view, node[n].seq_num, n,
                                               FinalizedBlock(node[n], {}).block_id)))],
                       FinalizedBlock(node[n], {}).block_id, n)]_vars

\* A validated block at height 2 that the primary proposes for height 1 has
\* gone through try_preparing, and the node is still PrePreparing
C22_Witness ==
    /\ last.op = "on_peer_message" /\ last.msg.ptype = PrePrepare
    /\ last.msg.block_id = D1Id /\ last.res = OkRes
    /\ \E n \in DOMAIN node :
          /\ last.n = n
          /\ node[n].phase = PrePreparing
          /\ has_block(node[n].blocks, D1Id)
          /\ has_pre_prepare(node[n].messages, node[n].seq_num, node[n].view, D1Id)
          /\ get_block_with_id(node[n].blocks, D1Id).block_num # node[n].seq_num

\* The steps that are a call of start_view_change, and the view it is called
\* with
StartsViewChange(n) ==
    /\ last'.n = n
    /\ last'.op \in {"start_view_change", "idle_timeout", "commit_timeout",
                     "view_change_timeout"}

TargetView(n) ==
    CASE last'.op = "start_view_change" -> last'.msg.view
      [] last'.op = "view_change_timeout" -> node[n].mode.v + 1
      [] OTHER -> node[n].view + 1

\* The messages of type ptype node n broadcasts in this step
OwnSent(n, ptype) == {x \in last'.sent : x.w.ptype = ptype /\ x.w.signer_id = n}

ViewChangesFor(messages, view) == get_messages_of_type_view(messages, ViewChange, view)

\* The step delivers a ViewChange that handle_view_change logs
LogsViewChange(n) ==
    /\ Delivers(n)
    /\ last'.msg.ptype = ViewChange
    /\ last'.msg.signer_id \in ValidatorSet(node[n])
    /\ is_validator(node[n])
    /\ last'.msg.view > node[n].view
    /\ IsViewChanging(node[n].mode) => last'.msg.view >= node[n].mode.v

\* The state in which handle_view_change goes on after logging
WithViewChange(n) ==
    [node[n] EXCEPT !.messages = add_message(@, from_peer_message(last'.msg, n))]

\* The step delivers a ViewChange on which handle_view_change calls
\* start_view_change
StartsEarly(n) ==
    /\ LogsViewChange(n)
    /\ IsViewChanging(node[n].mode) => last'.msg.view > node[n].mode.v
    /\ Cardinality(ViewChangesFor(WithViewChange(n).messages, last'.msg.view))
          > node[n].f

\* The step ends with start_view_change(s, V) at node n and shows what the
\* claim says of it
StartViewChangeDone(s, V, n) ==
    LET t == node'[n]
    IN IF IsViewChanging(s.mode) /\ s.mode.v >= V
       THEN last'.res = OkRes /\ t = s /\ last'.sent = {}
       ELSE /\ last'.res = OkRes
            /\ OwnSent(n, ViewChange) =
                  {[w |-> Wire(from_pbft_message(
                                   PbftMessage(ViewChange, V, s.seq_num - 1, n, ZeroId)), n),
                    to |-> ValidatorSet(s) \ {n}]}
            /\ \/ /\ t.mode = ViewChanging(V)
                  /\ t.view = s.view
                  /\ ~t.idle_timeout /\ ~t.commit_timeout
                  /\ t.view_change_timeout
                        => Cardinality(ViewChangesFor(t.messages, V)) > 2 * s.f
                  /\ OwnSent(n, NewView) = {}
               \/ /\ is_primary_at_view(s, V)
                  /\ \E x \in OwnSent(n, NewView) : x.w.view = V
                  /\ t.mode = Normal /\ t.view = V
                  /\ ~t.commit_timeout /\ ~t.view_change_timeout

\* C23: start_view_change(V).  Called by a node that is ViewChanging(V') with
\* V' >= V it changes nothing and sends nothing.  Otherwise it broadcasts one
\* ViewChange(view = V, seq = state.seq_num - 1, block_id = 0) to the other
\* validators and leaves the node in ViewChanging(V) with the idle and commit
\* timers stopped and the view-change timer stopped unless 2f + 1 ViewChanges
\* for V are in the log, or, when the node is the primary of V and its own
\* NewView follows in the same call, in Normal mode at view V.  This is so
\* when the timeouts and handle_view_change call it and when it is called on
\* its own.  In every step a target view that changes while the node is
\* ViewChanging grows, and a node broadcasts ViewChange(V) only when it is not
\* ViewChanging to V or a later view and then moves to target V, hence once
\* per stay in the mode.
C23_StartViewChange ==
    [][\A n \in DOMAIN node :
          /\ StartsViewChange(n) => StartViewChangeDone(node[n], TargetView(n), n)
          /\ StartsEarly(n) => StartViewChangeDone(WithViewChange(n), last'.msg.view, n)
          /\ (IsViewChanging(node[n].mode) /\ IsViewChanging(node'[n].mode))
                => node'[n].mode.v >= node[n].mode.v
          /\ \A x \in OwnSent(n, ViewChange) :
                /\ last'.n = n
                /\ ~(IsViewChanging(node[n].mode) /\ node[n].mode.v >= x.w.view)
                /\ node'[n].mode = ViewChanging(x.w.view) \/ node'[n].view = x.w.view]_vars

\* start_view_change(V) has been refused by a node that is changing to V and
\* holds the ViewChange of a peer for V
C23_Witness ==
    /\ last.op = "start_view_change" /\ last.sent = {}
    /\ \E n \in DOMAIN node :
          /\ last.n = n
          /\ node[n].mode = ViewChanging(last.msg.view)
          /\ \E m \in ViewChangesFor(node[n].messages, last.msg.view) : ~m.from_self

\* The step delivers a ViewChange to handle_view_change
AtHandleViewChange(n) ==
    /\ Delivers(n)
    /\ last'.msg.ptype = ViewChange
    /\ last'.msg.signer_id \in ValidatorSet(node[n])
    /\ is_validator(node[n])

\* The log of node n holds the message of the step
Logged(n) == \E m \in node'[n].messages : SameMessage(m, last'.msg)

\* C24 as stated: a ViewChange for view V is dropped, without being appended
\* to the log, when V <= state.view or when the node is ViewChanging(V') and
\* V <= V'.
C24_StaleViewChangeOriginal ==
    [][\A n \in DOMAIN node :
          (/\ AtHandleViewChange(n)
           /\ \/ last'.msg.view <= node[n].view
              \/ IsViewChanging(node[n].mode) /\ last'.msg.view <= node[n].mode.v)
             => last'.res = OkRes /\ NoChange(n)]_vars

\* C24: stale ViewChange drop rule.  A ViewChange for view V is dropped (Ok,
\* nothing changed, nothing sent) when V <= state.view or when the node is
\* ViewChanging(V') and V < V'; every other ViewChange that reaches the
\* handler, one for the node's own target V' > state.view included, is in the
\* log afterwards.
C24_StaleViewChange ==
    [][\A n \in DOMAIN node :
          AtHandleViewChange(n) =>
             IF \/ last'.msg.view <= node[n].view
                \/ IsViewChanging(node[n].mode) /\ last'.msg.view < node[n].mode.v
             THEN last'.res = OkRes /\ NoChange(n)
             ELSE Logged(n)]_vars

\* A node that is changing to view V on its own timeout has logged the
\* ViewChange of a peer for V
C24_Witness ==
    /\ last.op = "on_peer_message" /\ last.msg.ptype = ViewChange
    /\ \E n \in DOMAIN node :
          /\ last.n = n
          /\ node[n].mode = ViewChanging(last.msg.view)
          /\ last.msg.view > node[n].view
          /\ \E m \in node[n].messages : SameMessage(m, last.msg)
          /\ Cardinality(ViewChangesFor(node[n].messages, last.msg.view)) = 2
          /\ \E m \in ViewChangesFor(node[n].messages, last.msg.view) : m.from_self

\* C25: early view-change trigger.  When a ViewChange for view V has been
\* accepted by a node that is in Normal mode or ViewChanging(V') with V' < V
\* and the log then holds at least f + 1 ViewChanges for V, the node starts
\* the view change to V: it broadcasts its own ViewChange(V) and is in
\* ViewChanging(V), or, being the primary of V with 2f ViewChanges of others,
\* has sent its NewView and is at view V; with fewer than f + 1 ViewChanges for
\* V in the log the mode is what it was.
C25_EarlyViewChange ==
    [][\A n \in DOMAIN node :
          LogsViewChange(n) =>
             LET V == last'.msg.view
                 held == Cardinality(ViewChangesFor(WithViewChange(n).messages, V))
                 later == IsViewChanging(node[n].mode) => node[n].mode.v < V
             IN /\ (later /\ held >= node[n].f + 1)
                      => /\ \E x \in OwnSent(n, ViewChange) : x.w.view = V
                         /\ \/ node'[n].mode = ViewChanging(V)
                            \/ /\ node'[n].mode = Normal /\ node'[n].view = V
                               /\ \E x \in OwnSent(n, NewView) : x.w.view = V
                /\ held < node[n].f + 1 => node'[n].mode = node[n].mode]_vars

\* A node that was changing to view 1 has joined the change to view 2 on the
\* ViewChanges of two peers
C25_Witness ==
    /\ last.op = "on_peer_message" /\ last.msg.ptype = ViewChange /\ last.msg.view = 2
    /\ \E x \in last.sent : x.w.ptype = ViewChange /\ x.w.view = 2
    /\ \E n \in DOMAIN node :
          /\ last.n = n
          /\ node[n].mode = ViewChanging(2)
          /\ \E m \in ViewChangesFor(node[n].messages, 1) : m.from_self
          /\ Cardinality({m \in ViewChangesFor(node[n].messages, 2) : ~m.from_self}) = 2

\* The ViewChanges for view in the log of s that other validators sent
ViewChangesOfOthers(s, view) ==
    {m \in ViewChangesFor(s.messages, view) : m.signer_id # s.id}

\* C26: NewView emission.  A node broadcasts a NewView for view V only if it
\* is the primary of V and its log holds ViewChanges for V of at least 2f
\* distinct validators other than itself, and the NewView carries exactly the
\* votes of those messages, none of them the node's own.
C26_NewViewEmission ==
    [][\A n \in DOMAIN node :
          \A x \in OwnSent(n, NewView) :
             LET V == x.w.view
                 others == ViewChangesOfOthers(node'[n], V)
             IN /\ last'.n = n
                /\ is_primary_at_view(node[n], V)
                /\ {m.signer_id : m \in others} \subseteq ValidatorSet(node[n])
                /\ Cardinality({m.signer_id : m \in others}) >= 2 * node[n].f
                /\ x.w.body = signed_votes_from_messages(others)
                /\ \A v \in x.w.body : v.msg.signer_id # n]_vars

\* The step delivers a NewView to handle_new_view
AtHandleNewView(n) ==
    /\ Delivers(n)
    /\ last'.msg.ptype = NewView
    /\ last'.msg.signer_id \in ValidatorSet(node[n])
    /\ is_validator(node[n])

\* A signed vote that is a ViewChange for the view, signed by the validator
\* it names
ValidViewChangeVote(vote, view) ==
    /\ vote.msg.ptype = ViewChange
    /\ vote.msg.view = view
    /\ vote.hdr.signer = vote.msg.signer_id
    /\ vote.hdr.key = vote.hdr.signer
    /\ vote.hdr.hash_ok

\* The members other than the NewView's signer whose valid ViewChange votes
\* for its view it carries
NewViewVoters(s, new_view) ==
    {v.msg.signer_id : v \in {x \in new_view.body :
                                 /\ ValidViewChangeVote(x, new_view.view)
                                 /\ x.msg.signer_id \in ValidatorSet(s) \ {new_view.signer_id}}}

\* Every vote of the NewView is a valid ViewChange vote for its view of a
\* member other than its signer
OnlyGoodVotes(s, new_view) ==
    \A v \in new_view.body :
       /\ ValidViewChangeVote(v, new_view.view)
       /\ v.msg.signer_id \in ValidatorSet(s) \ {new_view.signer_id}

\* C27: NewView handling.  A NewView for view V that reaches handle_new_view
\* returns Ok only if V > state.view, its signer is the primary at V and it
\* carries valid ViewChange votes for V from at least 2f distinct members
\* other than its signer; then view = V, mode = Normal, the view-change timer
\* is stopped, the idle timer started, the phase is PrePreparing unless it was
\* Finishing, nothing else changes and nothing is sent.  Every NewView with
\* V <= state.view, a signer that is not the primary at V, fewer than 2f such
\* voters, or a vote that is not such a vote returns InvalidMessage, and every
\* NewView that does not return Ok returns InvalidMessage and changes nothing.
C27_NewViewHandling ==
    [][\A n \in DOMAIN node :
          AtHandleNewView(n) =>
             LET s == node[n]
                 nv == last'.msg
                 passes == /\ nv.view > s.view
                           /\ nv.signer_id = s.validators[(nv.view % Len(s.validators)) + 1]
                           /\ Cardinality(NewViewVoters(s, nv)) >= 2 * s.f
             IN /\ last'.res = OkRes => passes
                /\ (~passes \/ ~OnlyGoodVotes(s, nv)) => last'.res = InvalidMessage
                /\ IF last'.res = OkRes
                   THEN /\ node'[n] = [s EXCEPT !.view = nv.view,
                                                !.mode = Normal,
                                                !.view_change_timeout = FALSE,
                                                !.idle_timeout = TRUE,
                                                !.phase = IF IsFinishing(@) THEN @
                                                          ELSE PrePreparing]
                        /\ last'.sent = {}
                   ELSE last'.res = InvalidMessage /\ NoChange(n)]_vars

\* A validator in phase Preparing that was changing to view 1 has accepted
\* the NewView of the primary of view 1 and is back in PrePreparing, Normal
\* mode, view 1, with the idle timer running
C27_Witness ==
    /\ last.op = "on_peer_message" /\ last.msg.ptype = NewView /\ last.res = OkRes
    /\ last.msg.view = 1 /\ last.msg.signer_id = 1
    /\ \E e \in RangeOf(last.trace) : e = <<Preparing, PrePreparing, "handle_new_view">>
    /\ \E n \in DOMAIN node :
          /\ last.n = n
          /\ node[n].view = 1 /\ node[n].mode = Normal
          /\ node[n].phase = PrePreparing
          /\ node[n].idle_timeout /\ ~node[n].view_change_timeout
          /\ \E m \in ViewChangesFor(node[n].messages, 1) : m.from_self

\* The step delivers a BlockNew to on_block_new
AtOnBlockNew(n) ==
    /\ Delivers(n)
    /\ last'.msg.ptype = BlockNew
    /\ last'.msg.signer_id \in ValidatorSet(node[n])
    /\ is_validator(node[n])
    /\ ~IsViewChanging(node[n].mode)

\* The blocks of the log, validated and unvalidated
InLog(s) == s.blocks \cup s.ublocks

\* One of the four reasons for which on_block_new is to reject the block
ToReject(s, block) ==
    \/ block.block_num < s.seq_num
    \/ ~has_block(InLog(s), block.previous_id)
    \/ \E p \in InLog(s) : p.block_id = block.previous_id /\ p.block_num # block.block_num - 1
    \/ ~block.payload_ok

\* C28: on_block_new rejection.  A block with block_num < state.seq_num, with
\* a parent that is not in the log, with a parent whose block_num is not
\* block_num - 1, or with payload_id zero is rejected with an error and the
\* validated and unvalidated blocks of the log are as before; a step that
\* changes them delivers a block that passes the four checks.
C28_Rejection ==
    [][\A n \in DOMAIN node :
          AtOnBlockNew(n) =>
             LET block == BlockOf(last'.msg)
             IN ToReject(node[n], block)
                   => /\ last'.res # OkRes
                      /\ node'[n].blocks = node[n].blocks
                      /\ node'[n].ublocks = node[n].ublocks]_vars

\* The parent of the block is in the log, validated or unvalidated, one
\* height below it
HasParent(s, block) ==
    \E p \in InLog(s) : p.block_id = block.previous_id /\ p.block_num = block.block_num - 1

\* garbage_collect has no use for the blocks of this height any more
Collected(s, block_num) == block_num + GcWindow < s.seq_num

\* C29 as stated: every validated block of the log above the genesis block
\* has its parent in the log, one height below it.
C29_LogInvariantOriginal ==
    \A n \in DOMAIN node :
       \A b \in node[n].blocks : b.block_num >= 1 => HasParent(node[n], b)

\* C29: log invariant.  Every validated block at height n >= 1 in the log of
\* a node initialized on the genesis block, whose parent is not due for
\* garbage collection (n - 1 >= seq_num - K), has its parent in the log,
\* validated or unvalidated, and that parent has block_num n - 1; this holds
\* in every state reached by on_block_new, on_block_valid, on_block_commit
\* with its garbage collection, and sync_seal on the headers of the chain.
C29_LogInvariant ==
    \A n \in DOMAIN node :
       \A b \in node[n].blocks :
          (b.block_num >= 1 /\ ~Collected(node[n], b.block_num - 1)) => HasParent(node[n], b)

\* The node has committed three blocks and collected the genesis block; the
\* blocks of heights 2, 3 and 4 have their parents in the log, and a block
\* validated on top of an unvalidated one has been seen too
C29_Witness ==
    \E n \in DOMAIN node :
       /\ node[n].seq_num = 4
       /\ GenesisBlock \notin node[n].blocks
       /\ \A h \in 1..4 : \E b \in node[n].blocks : b.block_num = h
       /\ \A b \in node[n].blocks : b.block_num >= 2 => HasParent(node[n], b)

\* The step delivers to on_block_new a block that passes its checks, which
\* on_block_valid hands to try_handling_block
AtTryHandlingBlock(n) == AtOnBlockNew(n) /\ ~ToReject(node[n], BlockOf(last'.msg))

\* The sequence number with which the step calls try_handling_block:
\* on_block_commit has moved to the next one before it tries the grandchildren
SeqAtCall(n) ==
    IF last'.op = "on_block_commit" THEN node[n].seq_num + 1 ELSE node[n].seq_num

\* The phase changes of the step in which catchup, called by
\* try_handling_block, enters Finishing(true)
CatchupsFromBlock == {e \in RangeOf(last'.trace) : e[3] = "catchup" /\ e[2] = FinishingTrue}

\* C30: try_handling_block dispatch.  For a block with block_num >
\* seq_num + 1 the call returns Ok without verifying the block's seal: the
\* block is validated and nothing else changes (phase, view, timers,
\* messages, failed blocks), nothing is sent.  Catch-up from a block's seal starts only from a
\* phase other than Finishing and with a validated block above seq_num (at
\* seq_num + 1) whose seal is for its parent, the block the BlockCommit is
\* queued for.  The node broadcasts a PrePrepare only for a validated block
\* of height seq_num that it signed itself, while it is the primary, for its
\* view and seq_num.
C30_Dispatch ==
    [][\A n \in DOMAIN node :
          /\ (AtTryHandlingBlock(n) /\ BlockOf(last'.msg).block_num > node[n].seq_num + 1)
                => LET block == BlockOf(last'.msg)
                   IN /\ last'.res = OkRes
                      /\ last'.sent = {}
                      /\ node'[n] = [node[n] EXCEPT
                                        !.blocks = insert_block(@, block),
                                        !.ublocks = {b \in @ : b.block_id # block.block_id}]
          /\ (last'.n = n /\ CatchupsFromBlock # {})
                => /\ \A e \in CatchupsFromBlock : ~IsFinishing(e[1])
                   /\ node'[n].queued # <<>>
                   /\ \E b \in node'[n].blocks :
                         /\ b.block_num > SeqAtCall(n)
                         /\ b.block_num = SeqAtCall(n) + 1
                         /\ \E seal \in b.seal : seal.block_id = b.previous_id
                         /\ Head(node'[n].queued).block_id = b.previous_id
          /\ \A x \in OwnSent(n, PrePrepare) :
                /\ last'.n = n
                /\ is_primary(node[n])
                /\ x.w.view = node[n].view /\ x.w.seq_num = node[n].seq_num
                /\ \E b \in node'[n].blocks :
                      /\ b.block_id = x.w.block_id
                      /\ b.block_num = node[n].seq_num
                      /\ b.signer_id = n]_vars

\* A validator at seq_num 1 has validated a block of height 3 that has no
\* seal: the block is not failed and the node is as it was
C30_Witness ==
    /\ last.op = "on_peer_message"
    /\ last.msg.ptype = BlockNew /\ last.res = OkRes /\ last.sent = {}
    /\ \E n \in DOMAIN node :
          /\ last.n = n
          /\ node[n].seq_num = 1 /\ node[n].phase = PrePreparing /\ node[n].idle_timeout
          /\ F3 \in node[n].blocks /\ BlockOf(last.msg) = F3
          /\ F3Id \notin node[n].failed

\* The step hands a Seal message to handle_seal_response, which calls
\* catchup(seal, false): the node is not Finishing, the sealed block is a
\* validated block of the current height and the seal verifies
CatchupFromSeal(n) ==
    /\ Delivers(n)
    /\ last'.msg.ptype = Seal
    /\ last'.msg.signer_id \in ValidatorSet(node[n])
    /\ is_validator(node[n]) \/ node[n].becoming_validator
    /\ ~IsViewChanging(node[n].mode)
    /\ ~IsFinishing(node[n].phase)
    /\ \E b \in node[n].blocks :
          /\ b.block_id = last'.msg.block_id
          /\ b.block_num = node[n].seq_num
          /\ verify_consensus_seal(node[n], get_seal(last'.msg), b.previous_id) = OkRes

\* The step hands a block of height seq_num + 1 to try_handling_block, which
\* calls catchup(seal, true) with the seal the block carries
CatchupFromBlock(n) ==
    /\ AtTryHandlingBlock(n)
    /\ BlockOf(last'.msg).block_num = node[n].seq_num + 1
    /\ ~IsFinishing(node[n].phase)
    /\ verify_consensus_seal_from_block(
           [node[n] EXCEPT !.blocks = insert_block(@, BlockOf(last'.msg))],
           BlockOf(last'.msg)) = OkRes

\* What catchup(seal, catchup_again) is to have done at node n, called in
\* state s
CatchupDone(s, seal, catchup_again, n) ==
    LET t == node'[n]
    IN /\ last'.res = OkRes
       /\ \A v \in seal.commit_votes :
             \E m \in t.messages : SameMessage(m, from_signed_vote(v))
       /\ \A v \in seal.commit_votes : t.view = v.msg.view
       /\ seal.block_id \in t.engine_commits
       /\ Len(t.queued) = Len(s.queued) + 1
       /\ Head(t.queued).block_id = seal.block_id
       /\ ~Head(t.queued).committing
       /\ ~t.idle_timeout
       /\ t.phase = Finishing(catchup_again)
       /\ seal \in t.seals
       /\ t.seq_num = s.seq_num

\* C31: catchup(seal, catchup_again) appends the seal's commit votes to the
\* log, sets state.view to the seal's view, commits the seal's block via the
\* execution engine, queues BlockCommit with committing = false, stops the
\* idle timer, sets the phase to Finishing(catchup_again), persists the seal
\* and leaves seq_num alone, when handle_seal_response calls it and when
\* try_handling_block does.
C31_Catchup ==
    [][\A n \in DOMAIN node :
          /\ CatchupFromSeal(n) => CatchupDone(node[n], get_seal(last'.msg), FALSE, n)
          /\ CatchupFromBlock(n)
                => CatchupDone(node[n], SealFromBlock(BlockOf(last'.msg)), TRUE, n)]_vars

\* The step is on_block_commit at node n
AtBlockCommit(n) == last'.op = "on_block_commit" /\ last'.n = n

\* The SealRequests with an empty block id that node n sends in this step
EmptySealRequests(n) == {x \in OwnSent(n, SealRequest) : x.w.block_id = ZeroId}

\* What every on_block_commit that returns Ok has done with the event
CommitRecorded(n) ==
    /\ node'[n].seq_num = node[n].seq_num + 1
    /\ node'[n].mode = Normal
    /\ node'[n].chain_head = last'.msg.block_id
    /\ node'[n].last_block_timestamp = last'.msg.timestamp
    /\ last'.trace[1] = <<node[n].phase, PrePreparing, "on_block_commit">>

\* The one SealRequest of a node that has caught up and has no seal to go on
SealRequested(n) ==
    EmptySealRequests(n) =
       {[w |-> Wire(from_pbft_message(PbftMessage(SealRequest, node'[n].view,
                                                  node'[n].seq_num, n, ZeroId)), n),
         to |-> ValidatorSet(node'[n]) \ {n}]}

\* A validated block of the new height whose PrePrepare is in the log
ReadyToPrepare(n) ==
    \E b \in node'[n].blocks :
       /\ b.block_num = node'[n].seq_num
       /\ has_pre_prepare(node'[n].messages, node'[n].seq_num, node'[n].view, b.block_id)

\* C32 as stated: after a BlockCommit mode = Normal, phase = PrePreparing,
\* chain_head = block_id, last_block_timestamp = ts; a node that entered in
\* Finishing(true), with no block at seq_num + 1 that allows a further
\* catch-up, broadcasts a SealRequest with an empty block id and does not
\* start the idle timer; every other node has started the idle timer and
\* tried to prepare the blocks of the new height (the timer runs, or
\* try_preparing has stopped it on entering Preparing).
C32_CompletionOriginal ==
    [][\A n \in DOMAIN node :
          (AtBlockCommit(n) /\ last'.res = OkRes) =>
             /\ CommitRecorded(n)
             /\ IF node[n].phase = FinishingTrue /\ CatchupsFromBlock = {}
                THEN /\ node'[n].phase = PrePreparing
                     /\ SealRequested(n)
                     /\ node'[n].idle_timeout = node[n].idle_timeout
                ELSE /\ EmptySealRequests(n) = {}
                     /\ \/ node'[n].phase = PrePreparing /\ node'[n].idle_timeout
                        \/ node'[n].phase = Preparing /\ node'[n].commit_timeout]_vars

\* C32: on_block_commit completion.  Every on_block_commit that returns Ok
\* has incremented seq_num and set mode = Normal, phase = PrePreparing,
\* chain_head = block_id and last_block_timestamp = ts.  If a block at the
\* new seq_num + 1 allows a further catch-up, the call ends there: the node is
\* in Finishing(true) with the idle timer stopped and sends neither a
\* SealRequest nor a Prepare.  Otherwise, if the phase at entry was
\* Finishing(true), it broadcasts one SealRequest with an empty block id at
\* the new view and seq_num to the other validators, stays in PrePreparing
\* and leaves the idle timer as it was.  Otherwise it starts the idle timer
\* and tries to prepare the blocks of the new height: with a validated block
\* of that height whose PrePrepare is logged it is in Preparing with the idle
\* timer stopped and the commit timer started, without one in PrePreparing
\* with the idle timer running.
C32_Completion ==
    [][\A n \in DOMAIN node :
          (AtBlockCommit(n) /\ last'.res = OkRes) =>
             /\ CommitRecorded(n)
             /\ IF CatchupsFromBlock # {}
                THEN /\ node'[n].phase = FinishingTrue
                     /\ ~node'[n].idle_timeout
                     /\ OwnSent(n, SealRequest) = {} /\ OwnSent(n, Prepare) = {}
                ELSE IF node[n].phase = FinishingTrue
                THEN /\ node'[n].phase = PrePreparing
                     /\ SealRequested(n)
                     /\ node'[n].idle_timeout = node[n].idle_timeout
                     /\ OwnSent(n, Prepare) = {}
                ELSE /\ EmptySealRequests(n) = {}
                     /\ IF ReadyToPrepare(n)
                        THEN /\ node'[n].phase = Preparing
                             /\ ~node'[n].idle_timeout /\ node'[n].commit_timeout
                             /\ is_primary(node'[n]) \/ OwnSent(n, Prepare) # {}
                        ELSE /\ node'[n].phase = PrePreparing
                             /\ node'[n].idle_timeout
                             /\ OwnSent(n, Prepare) = {}]_vars

\* A validator that committed B1 on the Commit quorum, with blocks of heights
\* 2 and 3 in its log, has gone on to catch up on the block of height 2
C32_Witness ==
    /\ last.op = "on_block_commit" /\ last.res = OkRes
    /\ last.msg.committing
    /\ \E e \in RangeOf(last.trace) : e = <<PrePreparing, FinishingTrue, "catchup">>
    /\ \E n \in DOMAIN node :
          /\ last.n = n
          /\ node[n].seq_num = 2 /\ node[n].chain_head = B1Id
          /\ node[n].phase = FinishingTrue /\ ~node[n].idle_timeout
          /\ Len(node[n].queued) = 1 /\ Head(node[n].queued).block_id = D1Id

\* The step delivers a SealRequest to handle_seal_request
AtHandleSealRequest(n) ==
    /\ Delivers(n)
    /\ last'.msg.ptype = SealRequest
    /\ last'.msg.signer_id \in ValidatorSet(node[n])
    /\ is_validator(node[n])
    /\ ~IsViewChanging(node[n].mode)

\* The Seal messages of the step that go to the peer alone
SealsSentTo(peer) == {x \in last'.sent : x.w.ptype = Seal /\ x.to = {peer}}

\* The signers of the SealRequests for the height in the log of the state
Requesters(s, seq_num) ==
    {m.signer_id : m \in get_messages_of_type_seq(s.messages, SealRequest, seq_num)}

\* C33: SealRequest handling.  For a request with sequence number s, a node at
\* seq_num = s + 1 builds a seal for height s and sends it to the requester
\* in the same call; at seq_num = s it appends the request to the log, sends
\* nothing, and the on_block_commit that commits height s sends a seal for
\* that height to every requester in the log; at seq_num > s + 1 it sends the
\* stored seal of the requested block_id if there is one and nothing
\* otherwise; at seq_num < s it sends nothing and changes nothing.
C33_SealRequests ==
    [][\A n \in DOMAIN node :
          /\ AtHandleSealRequest(n) =>
                LET s == last'.msg.seq_num
                    requester == last'.msg.signer_id
                IN /\ last'.res = OkRes
                   /\ node[n].seq_num = s + 1 =>
                         /\ last'.sent = SealsSentTo(requester)
                         /\ \E x \in last'.sent :
                               x.w.seq_num = s /\ x.w.signer_id = n
                   /\ node[n].seq_num = s =>
                         /\ requester \in Requesters(node'[n], s)
                         /\ last'.sent = {}
                   /\ node[n].seq_num > s + 1 =>
                         IF \E x \in node[n].seals : x.block_id = last'.msg.block_id
                         THEN /\ last'.sent = SealsSentTo(requester)
                              /\ \E x \in last'.sent :
                                    get_seal(x.w) \in node[n].seals
                                       /\ x.w.block_id = last'.msg.block_id
                         ELSE NoChange(n)
                   /\ node[n].seq_num < s => NoChange(n)
          /\ (AtBlockCommit(n) /\ last'.res = OkRes) =>
                \A r \in Requesters(node[n], node[n].seq_num) :
                   \E x \in SealsSentTo(r) :
                      x.w.seq_num = node[n].seq_num /\ x.w.signer_id = n]_vars

\* The step hands a Seal message to handle_seal_response: through
\* on_peer_message at a validator in Normal mode, or in a call of its own
AtHandleSealResponse(n) ==
    \/ /\ Delivers(n)
       /\ last'.msg.ptype = Seal
       /\ last'.msg.signer_id \in ValidatorSet(node[n])
       /\ is_validator(node[n])
       /\ ~IsViewChanging(node[n].mode)
    \/ last'.op = "handle_seal_response" /\ last'.n = n

\* The sealed block is a validated block of the current height and the seal
\* passes verification against the block's parent
SealAccepted(s, seal) ==
    \E b \in s.blocks :
       /\ b.block_id = seal.block_id
       /\ b.block_num = s.seq_num
       /\ verify_consensus_seal(s, seal, b.previous_id) = OkRes

\* catchup has run in the step: the votes of the seal are in the log
CaughtUp(n, seal) ==
    /\ {from_signed_vote(v) : v \in seal.commit_votes} \subseteq
          {[m EXCEPT !.from_self = FALSE] : m \in node'[n].messages}
    /\ last'.res = OkRes => node'[n].phase = FinishingFalse /\ seal \in node'[n].seals

\* C34: Seal response.  A Seal message handed to handle_seal_response while
\* the node is in Finishing returns Ok and changes nothing; in any other
\* phase it leads to catch-up if the sealed block is a validated block in the
\* log with block_num = seq_num and the seal passes verification, and in
\* every other case it returns InvalidMessage and changes nothing.
C34_SealResponse ==
    [][\A n \in DOMAIN node :
          AtHandleSealResponse(n) =>
             IF IsFinishing(node[n].phase)
             THEN last'.res = OkRes /\ NoChange(n)
             ELSE IF SealAccepted(node[n], get_seal(last'.msg))
             THEN CaughtUp(n, get_seal(last'.msg))
             ELSE last'.res = InvalidMessage /\ NoChange(n)]_vars

\* A seal has arrived while the node was in Finishing and was ignored
C34_Witness ==
    /\ last.op = "handle_seal_response" /\ last.res = OkRes
    /\ \E n \in DOMAIN node :
          /\ last.n = n
          /\ IsFinishing(node[n].phase)
          /\ get_seal(last.msg).block_id \notin {b.block_id : b \in node[n].blocks}

\* floor((N - 1) / 3) for the validator list of the state
FaultsTolerated(s) == (Cardinality(ValidatorSet(s)) - 1) \div 3

\* C35: Membership update.  After on_block_commit, if the chain's validator
\* list for the committed height differs from the node's, the node's list is
\* the chain's and f = floor((N - 1) / 3) for its size N, or that value is 0
\* and the node has halted; if the chain's answer cannot be parsed the list
\* and f are as they were.  f = floor((|validators| - 1) / 3) in every state
\* of a node that has not halted.
C35_Membership ==
    [][\A n \in DOMAIN node :
          /\ AtBlockCommit(n) =>
                LET answer == OnChainMembers(node[n], node[n].seq_num)
                IN IF answer = <<>>
                   THEN /\ node'[n].validators = node[n].validators
                        /\ node'[n].f = node[n].f
                        /\ ~node'[n].halted
                   ELSE /\ node'[n].validators = answer
                        /\ IF (Len(answer) - 1) \div 3 = 0
                           THEN node'[n].halted
                           ELSE ~node'[n].halted /\ node'[n].f = (Len(answer) - 1) \div 3
          /\ ~node'[n].halted => node'[n].f = FaultsTolerated(node'[n])]_vars

\* A validator has committed B1 and found seven validators on chain
C35_Witness ==
    /\ last.op = "on_block_commit"
    /\ \E n \in DOMAIN node :
          /\ last.n = n
          /\ node[n].seq_num = 2
          /\ node[n].validators = Seven /\ node[n].f = 2

\* The step delivers to a node outside the validator list a message signed
\* by a validator
AtOutsider(n) ==
    /\ Delivers(n)
    /\ last'.msg.signer_id \in ValidatorSet(node[n])
    /\ ~is_validator(node[n])

\* The message is a NewValidator notice that names the node
NamesNode(msg, n) == msg.ptype = NewValidator /\ \E p \in msg.body : p.peerid = n

\* C36: Non-validator gate.  A node that is not in the validator list handles
\* AnnounceBlock, NewValidator and, while becoming_validator is true, Seal;
\* every other message returns Ok and changes nothing.  becoming_validator
\* becomes true only when such a node receives a NewValidator that names it,
\* and every such notice sets it; it becomes false again only in an
\* on_block_commit whose membership update leaves the node a validator, and
\* every such update resets it.
C36_Outsider ==
    [][\A n \in DOMAIN node :
          /\ (AtOutsider(n) /\ \/ last'.msg.ptype \notin {AnnounceBlock, NewValidator, Seal}
                               \/ last'.msg.ptype = Seal /\ ~node[n].becoming_validator)
                => last'.res = OkRes /\ NoChange(n)
          /\ (AtOutsider(n) /\ NamesNode(last'.msg, n)) => node'[n].becoming_validator
          /\ (~node[n].becoming_validator /\ node'[n].becoming_validator)
                => AtOutsider(n) /\ NamesNode(last'.msg, n)
          /\ (node[n].becoming_validator /\ ~node'[n].becoming_validator)
                => AtBlockCommit(n) /\ is_validator(node'[n])
          /\ (AtBlockCommit(n) /\ is_validator(node'[n]) /\ ~node'[n].halted)
                => ~node'[n].becoming_validator]_vars

\* The node outside the list was named in a notice, caught up on B1 from a
\* seal, found itself on the chain's list and is a validator
C36_Witness ==
    /\ last.op = "on_block_commit" /\ last.res = OkRes
    /\ \E n \in DOMAIN node :
          /\ last.n = n /\ n = Outsider
          /\ node[n].seq_num = 2 /\ node[n].chain_head = B1Id
          /\ is_validator(node[n]) /\ ~node[n].becoming_validator

\* The votes of the type that the nodes under study have sent so far
VotesSent(ptype) == {x.w : x \in {y \in net : y.w.ptype = ptype /\ y.w.signer_id \in DOMAIN node}}

\* No two votes of the type by one node for one (view, seq_num) name
\* different blocks
OneBlockPerVote(ptype) ==
    \A a \in VotesSent(ptype) : \A b \in VotesSent(ptype) :
       (a.signer_id = b.signer_id /\ a.view = b.view /\ a.seq_num = b.seq_num)
          => a.block_id = b.block_id

\* C37: Non-equivocation of an honest node.  Among all the messages a node
\* has sent, no two Prepares and no two Commits for the same (view, seq_num)
\* name different blocks; the Commits it sends to a peer that has connected
\* count as well.
C37_NonEquivocation == OneBlockPerVote(Prepare) /\ OneBlockPerVote(Commit)

\* The validated block of the log that an envelope's message names
NamedBlock(s, w) == get_block_with_id(s.blocks, w.block_id)

\* C38: a node enters Preparing for a block and broadcasts its Prepare only
\* if the seal in that block passes verification at the node: the block is a
\* validated block of the log and verify_consensus_seal_from_block accepts
\* it, so that a block try_handling_block has rejected for its seal is never
\* prepared.
C38_SealedBeforePrepare ==
    [][\A n \in DOMAIN node : \A x \in OwnSent(n, Prepare) :
          /\ has_block(node'[n].blocks, x.w.block_id)
          /\ verify_consensus_seal_from_block(node'[n], NamedBlock(node'[n], x.w)) = OkRes]_vars

\* The Commit messages of other nodes for the block at its height and in the
\* view, in the log of the state
ForeignCommits(s, block_id, view) ==
    {m \in get_messages_of_type_seq(s.messages, Commit, s.seq_num) :
        m.signer_id # s.id /\ ~m.from_self /\ m.block_id = block_id /\ m.view = view}

\* C39: whenever on_block_commit is handed a BlockCommit with committing =
\* true, the log holds at least 2f Commit messages of other nodes for the
\* committed block in one view, the seal is built and persisted, and the call
\* does not return an error after it has incremented seq_num.
C39_SealAfterCommit ==
    [][\A n \in DOMAIN node :
          (AtBlockCommit(n) /\ last'.msg.committing) =>
             /\ \E view \in 0..MaxView :
                   Cardinality(ForeignCommits(node[n], last'.msg.block_id, view))
                      >= 2 * node[n].f
             /\ \E seal \in node'[n].seals :
                   /\ seal.block_id = last'.msg.block_id
                   /\ seal.seq_num = node[n].seq_num
                   /\ Cardinality(seal.commit_votes) >= 2 * node[n].f
             /\ last'.res = OkRes
             /\ node'[n].seq_num = node[n].seq_num + 1]_vars

\* A validator has committed B1 on the Commits of two peers and its own, and
\* has built the seal from the two
C39_Witness ==
    /\ last.op = "on_block_commit" /\ last.res = OkRes /\ last.msg.committing
    /\ \E n \in DOMAIN node :
          /\ last.n = n
          /\ node[n].seq_num = 2
          /\ \E seal \in node[n].seals :
                seal.block_id = B1Id /\ Cardinality(seal.commit_votes) = 2
          /\ Cardinality({m \in node[n].messages : m.ptype = Commit /\ m.seq_num = 1}) = 3

\* The positions of the block events in the queue
BlockEventsAt(queued) == {i \in DOMAIN queued : IsBlockCommit(queued[i])}

\* A handler of the engine runs at node n in this step
Handles(n) == last'.n = n /\ last'.op \in {"on_peer_message", "on_block_commit"}

\* The block events of the queue are in front of every other event, the one
\* pushed last first
BlockEventsFirst(queued) ==
    \A i, j \in DOMAIN queued :
       (i < j /\ IsBlockCommit(queued[j])) =>
          /\ IsBlockCommit(queued[i])
          /\ queued[i].event.timestamp > queued[j].event.timestamp

\* C40: block events jump the queue.  push_block_event puts the event in
\* front of everything queued and pop_event returns the head, so block events
\* pushed without a pop in between come out in reverse order of insertion,
\* ahead of the peer messages and network events.  Under the driver loop the
\* BlockCommit that handle_commit or catchup pushes is in front of the peer
\* messages that were waiting, the next handler that runs is on_block_commit
\* for that event, and no peer message is handled while the node is in
\* Finishing.
C40_BlockEventsFirst ==
    [][\A n \in DOMAIN node :
          IF IsEngine(n)
          THEN /\ BlockEventsAt(node[n].queued) \subseteq {1}
               /\ IsFinishing(node[n].phase) = (BlockEventsAt(node[n].queued) = {1})
               /\ (Handles(n) /\ BlockEventsAt(node'[n].queued) # {}) =>
                     node'[n].queued = <<Head(node'[n].queued)>> \o Tail(node[n].queued)
               /\ (Handles(n) /\ BlockEventsAt(node[n].queued) # {}) =>
                     /\ last'.op = "on_block_commit"
                     /\ last'.msg = Head(node[n].queued)
               /\ Delivers(n) => ~IsFinishing(node[n].phase)
          ELSE /\ BlockEventsFirst(node[n].queued)
               /\ last'.op = "push_block_event" =>
                     node'[n].queued = <<last'.msg>> \o node[n].queued
               /\ (last'.op = "pop_event" /\ node[n].queued # <<>>) =>
                     /\ last'.msg = Head(node[n].queued)
                     /\ node'[n].queued = Tail(node[n].queued)
                     /\ BlockEventsAt(node[n].queued) # {} =>
                           /\ IsBlockCommit(last'.msg)
                           /\ \A i \in BlockEventsAt(node[n].queued) :
                                 node[n].queued[i].event.timestamp
                                    <= last'.msg.event.timestamp]_vars

\* The Commit that completes the quorum is handled while a peer message waits
\* in the queue: the BlockCommit is in front of it
C40_Witness ==
    /\ last.op = "on_peer_message" /\ last.msg.ptype = Commit
    /\ \E n \in DOMAIN node :
          /\ last.n = n
          /\ IsEngine(n)
          /\ node[n].phase = FinishingFalse
          /\ Len(node[n].queued) = 2
          /\ IsBlockCommit(node[n].queued[1]) /\ node[n].queued[1].committing
          /\ ~IsBlockCommit(node[n].queued[2])

====
